---- MODULE Spec2Model ----
(***************************************************************************)
(* A model of huffman_format: the bitpack crate (BitWriter, BitReader,     *)
(* CompactNumberU64) and the container codec built on it (byte table,      *)
(* Huffman tree and code table, pack_file, unpack_file).                   *)
(*                                                                         *)
(* Bytes are the integers 0..255.  An Option<u8> is a sequence of length   *)
(* 0 (None) or 1 (Some).  An io::Result is a record with field ok, and     *)
(* val (Ok) or err (Err).  A u64 is its eight base-256 digits, least       *)
(* significant first, because the checker's integers are 32 bits wide.     *)
(***************************************************************************)
EXTENDS Integers, Sequences, FiniteSets, TLC

VARIABLES
    pc,                 \* position of the running function
    source,             \* bytes of the Cursor handed to pack_file
    source_pos,         \* read position of that Cursor
    byte_table,         \* pack_file: byte_table
    tree_root,          \* pack_file: tree_root (get_huffman_tree_and_codes)
    code_table,         \* pack_file: code_table
    bit_writer,         \* BitWriter over the (counting) sink
    pack_result,        \* value returned by pack_file
    bit_reader,         \* BitReader over the source of unpack_file
    unpack_root,        \* unpack_file: tree_root (HeapNode::try_read_root)
    total_byte_count,   \* unpack_file: total_byte_count (a u64)
    bytes_read,         \* unpack_file: bytes_read
    current_node,       \* unpack_file: current_node
    sink,               \* bytes unpack_file wrote to its writer
    unpack_result,      \* value returned by unpack_file
    history,            \* calls made so far on the bit writer under test
    readback,           \* results of the reads made on the bit reader under test
    cli                 \* the command-line program: its arguments, output file and exit

vars == <<pc, source, source_pos, byte_table, tree_root, code_table, bit_writer,
          pack_result, bit_reader, unpack_root, total_byte_count, bytes_read,
          current_node, sink, unpack_result, history, readback, cli>>

\* ------------------------------------------------------------------ bounds

\* Longest source handed to pack_file.
MaxLen == 4
\* Longest arbitrary source handed to unpack_file directly.
MaxFuzzLen == 5
\* Most value bytes that follow a length byte in a crafted source.
MaxPayload == 8
\* Most calls made on a bit writer under test.
MaxOps == 3
\* Frames of HeapNode::read the call stack holds before it overflows.
StackFrames == 12
\* Largest of the small counts of a frequency table handed to the tree builder.
MaxCount == 2
\* Longest source of a bit reader under test.
MaxReadLen == 2
\* Most symbols of a table whose counts make the tree a chain.
MaxSkew == 18

\* ------------------------------------------------------- program constants

U8_BITS == 8
BYTE_TABLE_LEN == 256
LEAF_FLAG == 0
PAIR_FLAG == 1
TYPE_FLAG_SIZE == 1
LEFT_BIT == 0
RIGHT_BIT == 1
MAX_BYTES_REQUIRED == 8

\* ---------------------------------------------------------- Option, Result

None == <<>>
Some(x) == <<x>>
Ok(v) == [ok |-> TRUE, val |-> v]
Err(e) == [ok |-> FALSE, err |-> e]

\* ------------------------------------------------------------ u8 arithmetic

Pow2(n) == 2 ^ n

Bit(x, i) == (x \div Pow2(i)) % 2

\* a & b and a | b on u8
BitAnd(a, b) ==
    LET RECURSIVE and(_)
        and(i) == IF i = U8_BITS THEN 0
                  ELSE (Bit(a, i) * Bit(b, i)) * Pow2(i) + and(i + 1)
    IN and(0)

BitOr(a, b) ==
    LET RECURSIVE or(_)
        or(i) == IF i = U8_BITS THEN 0
                 ELSE (IF Bit(a, i) + Bit(b, i) > 0 THEN Pow2(i) ELSE 0) + or(i + 1)
    IN or(0)

\* x << n on u8, for n < 8 (bits shifted out are dropped)
Shl(x, n) == (x * Pow2(n)) % Pow2(U8_BITS)

\* x.checked_shr(n).unwrap_or(0) on u8
CheckedShr(x, n) == IF n >= U8_BITS THEN 0 ELSE x \div Pow2(n)

\* 1u8.checked_shl(s).unwrap_or(0).wrapping_sub(1)
u8_mask(s) ==
    LET shl == IF s >= U8_BITS THEN 0 ELSE Pow2(s)
    IN (shl - 1) % Pow2(U8_BITS)

Min(a, b) == IF a <= b THEN a ELSE b

\* ---------------------------------------------------------------- BitWriter

\* SinkWrite with the count left as it was.
SinkWrite_Uncounted(w, byte) ==
    [w EXCEPT !.inner = Append(@, byte)]

\* ByteCounter::write over a Vec sink: the byte is appended and counted.
SinkWrite(w, byte) ==
    [w EXCEPT !.inner = Append(@, byte), !.byte_count = @ + 1]

BitWriter_new == [inner |-> <<>>, byte_count |-> 0, bit_buff |-> 0, bit_cursor |-> 0]

write_byte(w, byte) ==
    LET bits_to_consume == U8_BITS - w.bit_cursor
        mask == u8_mask(bits_to_consume)
        byte_to_send == BitOr(w.bit_buff, Shl(BitAnd(byte, mask), w.bit_cursor))
        sent == SinkWrite(w, byte_to_send)
    IN [sent EXCEPT !.bit_buff = CheckedShr(byte, bits_to_consume)]

\* write_bits that keeps every remaining bit of the value when a write crosses a
\* byte boundary, instead of the low new_bit_cursor of them.
write_bits_Unmasked(w, bits, amount) ==
    IF amount = U8_BITS THEN write_byte(w, bits)
    ELSE
        LET remaining_bits == U8_BITS - w.bit_cursor
            bits_to_consume == Min(remaining_bits, amount)
            mask == u8_mask(bits_to_consume)
            buff == BitOr(w.bit_buff, Shl(BitAnd(bits, mask), w.bit_cursor))
            sum == w.bit_cursor + amount
        IN IF sum >= U8_BITS
           THEN LET sent == SinkWrite([w EXCEPT !.bit_buff = buff], buff)
                IN [sent EXCEPT
                      !.bit_buff = CheckedShr(bits, bits_to_consume),
                      !.bit_cursor = sum - U8_BITS]
           ELSE [w EXCEPT !.bit_buff = buff, !.bit_cursor = sum]

write_bits(w, bits, amount) ==
    IF amount = U8_BITS THEN write_byte(w, bits)
    ELSE
        LET remaining_bits == U8_BITS - w.bit_cursor
            bits_to_consume == Min(remaining_bits, amount)
            mask == u8_mask(bits_to_consume)
            buff == BitOr(w.bit_buff, Shl(BitAnd(bits, mask), w.bit_cursor))
            sum == w.bit_cursor + amount
        IN IF sum >= U8_BITS
           THEN LET sent == SinkWrite([w EXCEPT !.bit_buff = buff], buff)
                    new_bit_cursor == sum - U8_BITS
                IN [sent EXCEPT
                      !.bit_buff = BitAnd(CheckedShr(bits, bits_to_consume),
                                          u8_mask(new_bit_cursor)),
                      !.bit_cursor = new_bit_cursor]
           ELSE [w EXCEPT !.bit_buff = buff, !.bit_cursor = sum]

\* flush that leaves the emitted bits in the accumulator
BitWriter_flush_KeepsBuff(w) ==
    IF w.bit_cursor # 0
    THEN [SinkWrite(w, w.bit_buff) EXCEPT !.bit_cursor = 0]
    ELSE w

BitWriter_flush(w) ==
    IF w.bit_cursor # 0
    THEN [SinkWrite(w, w.bit_buff) EXCEPT !.bit_buff = 0, !.bit_cursor = 0]
    ELSE w

\* BitWrite::write_bytes(bytes, None): every byte through write_byte
RECURSIVE write_bytes(_, _)
write_bytes(w, bytes) ==
    IF bytes = <<>> THEN w
    ELSE write_bytes(write_byte(w, Head(bytes)), Tail(bytes))

\* ---------------------------------------------------------------- BitReader

BitReader_new(bytes) ==
    [inner |-> bytes, pos |-> 0, bit_buff |-> None, bit_cursor |-> 0]

\* try_read_one_byte on a Cursor over a slice: the next byte, or None at its end
\* try_read_one_byte on a source that hands out zero bytes once it has ended
try_read_one_byte_Endless(r) ==
    IF r.pos < Len(r.inner)
    THEN [reader |-> [r EXCEPT !.pos = @ + 1], res |-> Some(r.inner[r.pos + 1])]
    ELSE [reader |-> r, res |-> Some(0)]

try_read_one_byte(r) ==
    IF r.pos < Len(r.inner)
    THEN [reader |-> [r EXCEPT !.pos = @ + 1], res |-> Some(r.inner[r.pos + 1])]
    ELSE [reader |-> r, res |-> None]

fill_buff(r) ==
    IF r.bit_buff = None
    THEN LET f == try_read_one_byte(r)
         IN [reader |-> [f.reader EXCEPT !.bit_buff = f.res], res |-> f.res]
    ELSE [reader |-> r, res |-> r.bit_buff]

extract_part(buff, size, offset) == BitAnd(CheckedShr(buff, offset), u8_mask(size))

\* try_read_byte that returns the bits left in the staged byte without the
\* low bits of the next one.
try_read_byte_BottomOnly(r0) ==
    LET f == fill_buff(r0)
    IN IF f.res = None THEN [reader |-> f.reader, res |-> None]
       ELSE
        LET r == f.reader
            bottom_size == U8_BITS - r.bit_cursor
            byte == extract_part(f.res[1], bottom_size, r.bit_cursor)
            n == try_read_one_byte(r)
            r2 == [n.reader EXCEPT !.bit_buff = n.res]
        IN IF bottom_size # U8_BITS /\ n.res = None
           THEN [reader |-> r2, res |-> None]
           ELSE [reader |-> r2, res |-> Some(byte)]

try_read_byte(r0) ==
    LET f == fill_buff(r0)
    IN IF f.res = None THEN [reader |-> f.reader, res |-> None]
       ELSE
        LET r == f.reader
            bit_buff == f.res[1]
            bottom_size == U8_BITS - r.bit_cursor
            byte == extract_part(bit_buff, bottom_size, r.bit_cursor)
            n == try_read_one_byte(r)
            r2 == [n.reader EXCEPT !.bit_buff = n.res]
        IN IF bottom_size # U8_BITS
           THEN IF n.res # None
                THEN LET top_part == extract_part(n.res[1], r.bit_cursor, 0)
                     IN [reader |-> r2,
                         res |-> Some(BitOr(byte, Shl(top_part, bottom_size)))]
                ELSE [reader |-> r2, res |-> None]
           ELSE [reader |-> r2, res |-> Some(byte)]

\* try_read_bits that stores the new cursor before the second byte is read
try_read_bits_EagerCursor(r0, amount) ==
    IF amount = U8_BITS THEN try_read_byte(r0)
    ELSE
     LET f == fill_buff(r0)
     IN IF f.res = None THEN [reader |-> f.reader, res |-> None]
        ELSE
         LET r == f.reader
             bit_buff == f.res[1]
             bottom_size == Min(U8_BITS - r.bit_cursor, amount)
             byte == BitAnd(CheckedShr(bit_buff, r.bit_cursor), u8_mask(bottom_size))
             sum == r.bit_cursor + amount
         IN IF sum >= U8_BITS
            THEN LET new_bit_cursor == sum - U8_BITS
                     r1 == [r EXCEPT !.bit_buff = None, !.bit_cursor = new_bit_cursor]
                 IN IF new_bit_cursor > 0
                    THEN LET n == try_read_one_byte(r1)
                         IN IF n.res = None
                            THEN [reader |-> n.reader, res |-> None]
                            ELSE [reader |-> [n.reader EXCEPT !.bit_buff = n.res],
                                  res |-> Some(BitOr(byte,
                                             Shl(BitAnd(n.res[1], u8_mask(new_bit_cursor)),
                                                 bottom_size)))]
                    ELSE [reader |-> r1, res |-> Some(byte)]
            ELSE [reader |-> [r EXCEPT !.bit_cursor = sum], res |-> Some(byte)]

try_read_bits(r0, amount) ==
    IF amount = U8_BITS THEN try_read_byte(r0)
    ELSE
     LET f == fill_buff(r0)
     IN IF f.res = None THEN [reader |-> f.reader, res |-> None]
        ELSE
         LET r == f.reader
             bit_buff == f.res[1]
             bits_remaining == U8_BITS - r.bit_cursor
             bottom_size == Min(bits_remaining, amount)
             mask == u8_mask(bottom_size)
             byte == BitAnd(CheckedShr(bit_buff, r.bit_cursor), mask)
             sum == r.bit_cursor + amount
         IN IF sum >= U8_BITS
            THEN LET new_bit_cursor == sum - U8_BITS
                     r1 == [r EXCEPT !.bit_buff = None]
                 IN IF new_bit_cursor > 0
                    THEN LET n == try_read_one_byte(r1)
                         IN IF n.res = None
                            THEN [reader |-> n.reader, res |-> None]
                            ELSE [reader |-> [n.reader EXCEPT
                                                !.bit_buff = n.res,
                                                !.bit_cursor = new_bit_cursor],
                                  res |-> Some(BitOr(byte,
                                             Shl(BitAnd(n.res[1], u8_mask(new_bit_cursor)),
                                                 bottom_size)))]
                    ELSE [reader |-> [r1 EXCEPT !.bit_cursor = new_bit_cursor],
                          res |-> Some(byte)]
            ELSE [reader |-> [r EXCEPT !.bit_cursor = sum], res |-> Some(byte)]

\* Hard that turns None into the value 0
Hard_Zero(t) ==
    [reader |-> t.reader,
     res |-> IF t.res = None THEN Ok(0) ELSE Ok(t.res[1])]

\* BitRead::read_byte / read_bits: None becomes the UnexpectedEof error
Hard(t) ==
    [reader |-> t.reader,
     res |-> IF t.res = None THEN Err("UnexpectedEof") ELSE Ok(t.res[1])]

\* read_byte that hands out a zero byte once the source has ended
read_byte_ZeroAtEof(r) ==
    LET t == try_read_byte(r)
    IN [reader |-> t.reader, res |-> IF t.res = None THEN Ok(0) ELSE Ok(t.res[1])]

read_byte(r) == Hard(try_read_byte(r))

\* read_bits that hands out a zero bit pattern once the source has ended
read_bits_ZeroAtEof(r, amount) ==
    LET t == try_read_bits(r, amount)
    IN [reader |-> t.reader, res |-> IF t.res = None THEN Ok(0) ELSE Ok(t.res[1])]

read_bits(r, amount) == Hard(try_read_bits(r, amount))

\* --------------------------------------------------------------- u64 values

\* A u64 is four 16-bit limbs, least significant first.
U64_BYTES == 8
U64_LIMBS == U64_BYTES \div 2
LIMB == Pow2(2 * U8_BITS)

\* a u64 from a small natural number (a count below 2^31)
U64(n) == <<n % LIMB, n \div LIMB, 0, 0>>

\* a >= b on u64
U64Geq(a, b) ==
    LET RECURSIVE geq(_)
        geq(i) == IF i = 0 THEN TRUE
                  ELSE IF a[i] # b[i] THEN a[i] > b[i]
                  ELSE geq(i - 1)
    IN geq(U64_LIMBS)

\* a < b on u64
U64Less(a, b) == ~U64Geq(a, b)

\* u64::checked_shl(1, n * 8).unwrap_or(0).wrapping_sub(1): the low n bytes set,
\* and every byte set once the shift reaches the width (n >= 8)
MaxOfBytes(n) ==
    [i \in 1..U64_LIMBS |->
        IF n >= U64_BYTES \/ 2 * i <= n THEN LIMB - 1
        ELSE IF 2 * i - 1 = n THEN Pow2(U8_BITS) - 1
        ELSE 0]

\* the bytes of a u64, most significant first
to_be_bytes(v) ==
    [j \in 1..U64_BYTES |->
        LET limb == v[(U64_BYTES - j) \div 2 + 1]
        IN IF j % 2 = 0 THEN limb % Pow2(U8_BITS) ELSE limb \div Pow2(U8_BITS)]

to_le_bytes(v) ==
    [j \in 1..U64_BYTES |->
        LET limb == v[(j + 1) \div 2]
        IN IF j % 2 = 1 THEN limb % Pow2(U8_BITS) ELSE limb \div Pow2(U8_BITS)]

from_le_bytes(bytes) ==
    [i \in 1..U64_LIMBS |-> bytes[2 * i - 1] + Pow2(U8_BITS) * bytes[2 * i]]

\* ---------------------------------------------------------- CompactNumberU64

\* every value takes all eight bytes
required_number_of_bytes_Full(v) == U64_BYTES

required_number_of_bytes(v) ==
    LET RECURSIVE loop(_)
        loop(n) == IF U64Geq(MaxOfBytes(n), v) THEN n ELSE loop(n + 1)
    IN loop(1)

CompactNumberU64_write(w, v) ==
    LET bytes_required == required_number_of_bytes(v)
        bytes == to_le_bytes(v)
    IN write_bytes(write_byte(w, bytes_required), SubSeq(bytes, 1, bytes_required))

\* BitRead::read_bytes(bytes, None) on a buffer of n bytes: n calls of read_byte,
\* stopped by the first error; val is the bytes read
RECURSIVE read_bytes(_, _)
read_bytes(r, n) ==
    IF n = 0 THEN [reader |-> r, res |-> Ok(<<>>)]
    ELSE LET b == read_byte(r)
         IN IF ~b.res.ok THEN b
            ELSE LET rest == read_bytes(b.reader, n - 1)
                 IN IF ~rest.res.ok THEN rest
                    ELSE [reader |-> rest.reader,
                          res |-> Ok(<<b.res.val>> \o rest.res.val)]

\* CompactNumberU64_read without the check of the length byte
CompactNumberU64_read_Unchecked(r) ==
    LET k == read_byte(r)
    IN IF ~k.res.ok THEN k
       ELSE LET got == read_bytes(k.reader, k.res.val)
            IN IF ~got.res.ok THEN got
               ELSE [reader |-> got.reader,
                     res |-> Ok(from_le_bytes(
                                SubSeq(got.res.val \o [i \in 1..U64_BYTES |-> 0],
                                       1, U64_BYTES)))]

CompactNumberU64_read(r) ==
    LET k == read_byte(r)
    IN IF ~k.res.ok THEN k
       ELSE IF k.res.val > MAX_BYTES_REQUIRED
       THEN [reader |-> k.reader, res |-> Err("InvalidData")]
       ELSE LET got == read_bytes(k.reader, k.res.val)
            IN IF ~got.res.ok THEN got
               ELSE [reader |-> got.reader,
                     res |-> Ok(from_le_bytes(
                                got.res.val \o
                                [i \in 1..(U64_BYTES - k.res.val) |-> 0]))]

\* ------------------------------------------------------------------ HeapNode

Leaf(byte) == [tag |-> "Leaf", byte |-> byte]
Pair(left, right) == [tag |-> "Pair", left |-> left, right |-> right]
Empty == [tag |-> "Empty"]

Panic(msg) == [panic |-> msg]

\* HeapNode_write that writes no tag for a pair
RECURSIVE HeapNode_write_NoPairTag(_, _)
HeapNode_write_NoPairTag(w, node) ==
    CASE node.tag = "Leaf" ->
           write_byte(write_bits(w, LEAF_FLAG, TYPE_FLAG_SIZE), node.byte)
      [] node.tag = "Pair" ->
           HeapNode_write_NoPairTag(HeapNode_write_NoPairTag(w, node.left), node.right)
      [] node.tag = "Empty" ->
           Panic("Empty leaf representation are only allowed when reading.")

RECURSIVE HeapNode_write(_, _)
HeapNode_write(w, node) ==
    CASE node.tag = "Leaf" ->
           write_byte(write_bits(w, LEAF_FLAG, TYPE_FLAG_SIZE), node.byte)
      [] node.tag = "Pair" ->
           HeapNode_write(
               HeapNode_write(write_bits(w, PAIR_FLAG, TYPE_FLAG_SIZE), node.left),
               node.right)
      [] node.tag = "Empty" ->
           Panic("Empty leaf representation are only allowed when reading.")

\* the `?` of a call: an Err ends the caller with it, an Ok goes on with its value
LeafOf(b) ==
    IF ~b.res.ok THEN b ELSE [reader |-> b.reader, res |-> Ok(Leaf(b.res.val))]

\* PairOf with the two subtrees exchanged
PairOf_Swapped(left, right) ==
    IF ~right.res.ok THEN right
    ELSE [reader |-> right.reader, res |-> Ok(Pair(right.res.val, left.res.val))]

PairOf(left, right) ==
    IF ~right.res.ok THEN right
    ELSE [reader |-> right.reader, res |-> Ok(Pair(left.res.val, right.res.val))]

\* BitReadable for HeapNode.  depth counts the frames of read on the call stack;
\* a call that needs more than StackFrames of them overflows the stack, which
\* aborts the process.
RECURSIVE HeapNode_read(_, _)
RECURSIVE ReadNode(_, _)
RECURSIVE ReadRight(_, _)
HeapNode_read(r, depth) ==
    IF depth > StackFrames THEN [reader |-> r, res |-> Err("StackOverflow")]
    ELSE ReadNode(read_bits(r, TYPE_FLAG_SIZE), depth)

\* match type_flag { LEAF_FLAG => .., PAIR_FLAG => .., _ => unreachable!() }
ReadNode(type_flag, depth) ==
    IF ~type_flag.res.ok THEN type_flag
    ELSE IF type_flag.res.val = LEAF_FLAG THEN LeafOf(read_byte(type_flag.reader))
    ELSE IF type_flag.res.val = PAIR_FLAG
    THEN ReadRight(HeapNode_read(type_flag.reader, depth + 1), depth)
    ELSE [reader |-> type_flag.reader, res |-> Err("unreachable")]

\* let right = Self::read(reader)?, after the left subtree
ReadRight(left, depth) ==
    IF ~left.res.ok THEN left
    ELSE PairOf(left, HeapNode_read(left.reader, depth + 1))

\* WrapRoot with the children the other way round: Pair{Empty, leaf}
WrapRoot_Mirrored(t) ==
    IF ~t.res.ok THEN t
    ELSE [reader |-> t.reader,
          res |-> Ok(Some(IF t.res.val.tag = "Leaf" THEN Pair(Empty, t.res.val)
                          ELSE t.res.val))]

\* a root leaf is wrapped into Pair{leaf, Empty}
WrapRoot(t) ==
    IF ~t.res.ok THEN t
    ELSE [reader |-> t.reader,
          res |-> Ok(Some(IF t.res.val.tag = "Leaf" THEN Pair(t.res.val, Empty)
                          ELSE t.res.val))]

\* try_read_root whose first read is a hard read
HeapNode_try_read_root_Hard(r) == WrapRoot(ReadNode(read_bits(r, TYPE_FLAG_SIZE), 0))

\* HeapNode::try_read_root: val is None at an immediate end of the source,
\* else Some(root).  The root's children are read by HeapNode::read, one frame
\* deep.
HeapNode_try_read_root(r) ==
    LET type_flag == try_read_bits(r, 1)
    IN IF type_flag.res = None THEN [reader |-> type_flag.reader, res |-> Ok(None)]
       ELSE WrapRoot(ReadNode(Hard(type_flag), 0))

\* ------------------------------------------- HuffmanCode, HuffmanCodeBuilder

Bytes == 0..(BYTE_TABLE_LEN - 1)

\* HuffmanCode(Vec<u8>, usize)
HuffmanCode(bytes, last) == [bytes |-> bytes, last |-> last]

HuffmanCodeBuilder_new == [bit_cursor |-> 0, bytes |-> <<>>, bit_buff |-> 0]

Reverse(seq) == [i \in 1..Len(seq) |-> seq[Len(seq) + 1 - i]]

write_bit(b, bit) ==
    LET c == IF b.bit_cursor = U8_BITS
             THEN [bit_cursor |-> 0, bytes |-> Append(b.bytes, b.bit_buff), bit_buff |-> 0]
             ELSE b
    IN [c EXCEPT !.bit_buff = BitOr(Shl(c.bit_buff, 1), bit),
                 !.bit_cursor = c.bit_cursor + 1]

\* finish that leaves the bytes in the order they were filled
finish_Unreversed(b) ==
    LET bytes == IF b.bit_cursor # 0 THEN Append(b.bytes, b.bit_buff) ELSE b.bytes
    IN HuffmanCode(bytes, b.bit_cursor)

finish(b) ==
    LET bytes == IF b.bit_cursor # 0 THEN Append(b.bytes, b.bit_buff) ELSE b.bytes
    IN HuffmanCode(Reverse(bytes), b.bit_cursor)

\* HuffmanCode_write that writes the first byte whole
HuffmanCode_write_WholeBytes(w, code) == write_bytes(w, code.bytes)

\* BitWritable for HuffmanCode
HuffmanCode_write(w, code) ==
    IF code.bytes = <<>> THEN w
    ELSE write_bytes(write_bits(w, code.bytes[1], code.last), Tail(code.bytes))

\* -------------------------------------------------------------- byte table

\* table::get_byte_table: the count of each byte from the reader's position on
get_byte_table(bytes, pos) ==
    [b \in Bytes |-> Cardinality({i \in (pos + 1)..Len(bytes) : bytes[i] = b})]

\* byte_table.iter().sum()
TableSum(table) ==
    LET RECURSIVE sum(_, _)
        sum(lo, hi) == IF lo = hi THEN table[lo]
                       ELSE sum(lo, (lo + hi) \div 2) + sum((lo + hi) \div 2 + 1, hi)
    IN sum(0, BYTE_TABLE_LEN - 1)

\* ------------------------------------------------ get_huffman_tree_and_codes

RECURSIVE write_bit_to_node(_, _, _)
write_bit_to_node(node, bit, builders) ==
    CASE node.tag = "Leaf" ->
           [builders EXCEPT ![node.byte] = write_bit(@, bit)]
      [] node.tag = "Pair" ->
           write_bit_to_node(node.right, bit,
                             write_bit_to_node(node.left, bit, builders))
      [] node.tag = "Empty" -> Panic("Empty node should only be used when reading")

\* the elements of a set of bytes, in increasing order
RECURSIVE Ascending(_)
Ascending(S) ==
    IF S = {} THEN <<>>
    ELSE LET m == CHOOSE x \in S : \A y \in S : x <= y
         IN <<m>> \o Ascending(S \ {m})

\* the leaves of the symbols counted more than once only
InitialNodes_Multiple(table) ==
    LET present == Ascending({b \in Bytes : table[b] > 1})
    IN [i \in 1..Len(present) |->
          [count |-> table[present[i]], node |-> Leaf(present[i])]]

\* the leaves of the symbols with a non-zero count, in byte order
InitialNodes(table) ==
    LET present == Ascending({b \in Bytes : table[b] # 0})
    IN [i \in 1..Len(present) |->
          [count |-> table[present[i]], node |-> Leaf(present[i])]]

\* the sort left out: the nodes stay in the order they are in
SortByCountDesc_Unsorted(nodes) == nodes

\* nodes.sort_by_key(|(count, _)| Reverse(*count)): a stable sort, larger counts
\* first
RECURSIVE SortByCountDesc(_)
SortByCountDesc(nodes) ==
    IF nodes = <<>> THEN <<>>
    ELSE LET rest == SortByCountDesc(SubSeq(nodes, 1, Len(nodes) - 1))
             x == nodes[Len(nodes)]
             \* x goes behind every element whose count is not smaller
             k == Cardinality({i \in 1..Len(rest) : rest[i].count >= x.count})
         IN SubSeq(rest, 1, k) \o <<x>> \o SubSeq(rest, k + 1, Len(rest))

\* a turn of the merge loop that puts the first-removed node on the left
MergeStep_Swapped(st) ==
    LET sorted == SortByCountDesc(st.nodes)
        n == Len(sorted)
        left == sorted[n]
        right == sorted[n - 1]
        b1 == write_bit_to_node(left.node, LEFT_BIT, st.builders)
        b2 == write_bit_to_node(right.node, RIGHT_BIT, b1)
    IN [nodes |-> Append(SubSeq(sorted, 1, n - 2),
                         [count |-> left.count + right.count,
                          node |-> Pair(left.node, right.node)]),
        builders |-> b2]

\* one turn of the merge loop on (nodes, builders)
MergeStep(st) ==
    LET sorted == SortByCountDesc(st.nodes)
        n == Len(sorted)
        right == sorted[n]
        left == sorted[n - 1]
        b1 == write_bit_to_node(left.node, LEFT_BIT, st.builders)
        b2 == write_bit_to_node(right.node, RIGHT_BIT, b1)
    IN [nodes |-> Append(SubSeq(sorted, 1, n - 2),
                         [count |-> left.count + right.count,
                          node |-> Pair(left.node, right.node)]),
        builders |-> b2]

RECURSIVE MergeLoop(_)
MergeLoop(st) == IF Len(st.nodes) > 1 THEN MergeLoop(MergeStep(st)) ELSE st

\* get_huffman_tree_and_codes without the bit written to a root that is a leaf
get_huffman_tree_and_codes_NoRootBit(table) ==
    LET nodes == InitialNodes(table)
    IN IF nodes = <<>> THEN None
       ELSE
        LET st == MergeLoop([nodes |-> nodes,
                             builders |-> [b \in Bytes |-> HuffmanCodeBuilder_new]])
            reprs == [b \in Bytes |->
                        LET repr == finish(st.builders[b])
                        IN IF repr.bytes # <<>> THEN Some(repr) ELSE None]
        IN Some([root |-> st.nodes[1].node, codes |-> reprs])

\* None for an empty table, else Some of the root and the code table
get_huffman_tree_and_codes(table) ==
    LET nodes == InitialNodes(table)
    IN IF nodes = <<>> THEN None
       ELSE
        LET st == MergeLoop([nodes |-> nodes,
                             builders |-> [b \in Bytes |-> HuffmanCodeBuilder_new]])
            root == st.nodes[1].node
            builders == IF root.tag = "Leaf"
                        THEN write_bit_to_node(root, LEFT_BIT, st.builders)
                        ELSE st.builders
            reprs == [b \in Bytes |->
                        LET repr == finish(builders[b])
                        IN IF repr.bytes # <<>> THEN Some(repr) ELSE None]
        IN Some([root |-> root, codes |-> reprs])

\* ------------------------------------------------------------- idle values

\* The variables of pack_file, of unpack_file and of the tests of the bit I/O;
\* each group carries cli, which only the command-line program's own steps change.
packVars == <<source, source_pos, byte_table, tree_root, code_table, pack_result, cli>>
unpackVars == <<unpack_root, total_byte_count, bytes_read, current_node, sink,
                unpack_result, cli>>
ioVars == <<history, readback, cli>>

\* pack_file has not been called
PackIdle ==
    /\ source = <<>>
    /\ source_pos = 0
    /\ byte_table = <<>>
    /\ tree_root = <<>>
    /\ code_table = <<>>
    /\ pack_result = <<>>

\* unpack_file has not got past its first line
UnpackIdle ==
    /\ unpack_root = <<>>
    /\ total_byte_count = <<>>
    /\ bytes_read = 0
    /\ current_node = <<>>
    /\ sink = <<>>
    /\ unpack_result = <<>>

\* no bit writer or reader is under test
IoIdle ==
    /\ history = <<>>
    /\ readback = <<>>

\* the library is called directly, not through the command-line program
CliIdle == cli = [command |-> "None", output |-> "None", file_exists |-> FALSE,
                  remove_failed |-> FALSE, exit_code |-> "Running"]

\* the sequences over S of length at most n
RECURSIVE SeqsUpTo(_, _)
SeqsUpTo(S, n) ==
    IF n = 0 THEN {<<>>}
    ELSE LET shorter == SeqsUpTo(S, n - 1)
         IN shorter \cup {Append(s, x) : s \in shorter, x \in S}

\* ----------------------------------------------------------------- pack_file

\* Byte values of the sources handed to pack_file.
Alphabet == {0, 1, 2, 3, 255}

Sources == SeqsUpTo(Alphabet, MaxLen)

\* pack_file is called on a Cursor at its start and an empty sink
Init ==
    /\ pc = "pack_count"
    /\ source \in Sources
    /\ source_pos = 0
    /\ byte_table = <<>>
    /\ tree_root = <<>>
    /\ code_table = <<>>
    /\ pack_result = <<>>
    /\ bit_writer = BitWriter_new
    /\ bit_reader = BitReader_new(<<>>)
    /\ UnpackIdle
    /\ CliIdle
    /\ IoIdle

\* let byte_table = table::get_byte_table(&mut buf_reader)?
PackCount ==
    /\ pc = "pack_count"
    /\ byte_table' = get_byte_table(source, source_pos)
    /\ source_pos' = Len(source)
    /\ pc' = "pack_build"
    /\ UNCHANGED <<source, tree_root, code_table, pack_result, bit_writer, bit_reader,
                   unpackVars, ioVars>>

\* get_huffman_tree_and_codes, with the early return Ok(0) on an empty table
PackBuild ==
    /\ pc = "pack_build"
    /\ LET built == get_huffman_tree_and_codes(byte_table)
       IN IF built = None
          THEN /\ pack_result' = Ok(0)
               /\ pc' = "pack_done"
               /\ UNCHANGED <<tree_root, code_table>>
          ELSE /\ tree_root' = built[1].root
               /\ code_table' = built[1].codes
               /\ pc' = "pack_tree"
               /\ UNCHANGED pack_result
    /\ UNCHANGED <<source, source_pos, byte_table, bit_writer, bit_reader,
                   unpackVars, ioVars>>

\* the tree written and the writer flushed before the length is written
PackWriteTree_Flushed ==
    /\ pc = "pack_tree"
    /\ source_pos' = 0
    /\ bit_writer' = BitWriter_flush(HeapNode_write(bit_writer, tree_root))
    /\ pc' = "pack_length"
    /\ UNCHANGED <<source, byte_table, tree_root, code_table, pack_result,
                   bit_reader, unpackVars, ioVars>>

\* buf_reader.rewind()?; bit_writer.write_writable(tree_root)?
PackWriteTree ==
    /\ pc = "pack_tree"
    /\ source_pos' = 0
    /\ bit_writer' = HeapNode_write(bit_writer, tree_root)
    /\ pc' = "pack_length"
    /\ UNCHANGED <<source, byte_table, tree_root, code_table, pack_result,
                   bit_reader, unpackVars, ioVars>>

\* bit_writer.write_writable(CompactNumberU64(total_byte_count))?
PackWriteLength ==
    /\ pc = "pack_length"
    /\ bit_writer' = CompactNumberU64_write(bit_writer, U64(TableSum(byte_table)))
    /\ pc' = "pack_data"
    /\ UNCHANGED <<packVars, bit_reader, unpackVars, ioVars>>

\* one byte of the data loop: its code is looked up and written
PackEncode ==
    /\ pc = "pack_data"
    /\ source_pos < Len(source)
    /\ LET code == code_table[source[source_pos + 1]]
       IN IF code = None
          THEN /\ pack_result' = Err("unwrap on None")
               /\ pc' = "pack_done"
               /\ UNCHANGED <<bit_writer, source_pos>>
          ELSE /\ bit_writer' = HuffmanCode_write(bit_writer, code[1])
               /\ source_pos' = source_pos + 1
               /\ UNCHANGED <<pc, pack_result>>
    /\ UNCHANGED <<source, byte_table, tree_root, code_table, bit_reader,
                   unpackVars, ioVars>>

\* the source is exhausted: bit_writer.flush()?; Ok(byte_count)
PackFlush ==
    /\ pc = "pack_data"
    /\ source_pos = Len(source)
    /\ bit_writer' = BitWriter_flush(bit_writer)
    /\ pack_result' = Ok(bit_writer'.byte_count)
    /\ pc' = "pack_done"
    /\ UNCHANGED <<source, source_pos, byte_table, tree_root, code_table,
                   bit_reader, unpackVars, ioVars>>

\* check_data_integrity: the sink is rewound and handed to unpack_file
StartUnpack ==
    /\ pc = "pack_done"
    /\ pack_result.ok
    /\ bit_reader' = BitReader_new(bit_writer.inner)
    /\ pc' = "unpack_root"
    /\ UNCHANGED <<packVars, bit_writer, unpackVars, ioVars>>

\* ------------------------------------------- pack_file on a failing source

\* get_byte_table(&mut buf_reader)? or buf_reader.fill_buf()? returns the
\* source's read error: pack_file returns it, and the bit writer is dropped as
\* it is
PackReadError ==
    /\ pc \in {"pack_count", "pack_data"}
    /\ pack_result' = Err("Other")
    /\ pc' = "pack_done"
    /\ UNCHANGED <<source, source_pos, byte_table, tree_root, code_table,
                   bit_writer, bit_reader, unpackVars, ioVars>>

\* buf_reader.rewind()? returns the source's seek error
PackSeekError ==
    /\ pc = "pack_tree"
    /\ pack_result' = Err("Other")
    /\ pc' = "pack_done"
    /\ UNCHANGED <<source, source_pos, byte_table, tree_root, code_table,
                   bit_writer, bit_reader, unpackVars, ioVars>>

NextPackIo ==
    \/ PackCount \/ PackBuild \/ PackWriteTree \/ PackWriteLength
    \/ PackEncode \/ PackFlush
    \/ PackReadError \/ PackSeekError

\* pack_file on a source whose reads and seeks may fail
SpecPackIo == Init /\ [][NextPackIo]_vars

\* ------------------------------- pack_file on a source at any read position

\* pack_file is called on a Cursor whose position is anywhere in the source
InitSeeked ==
    /\ pc = "pack_count"
    /\ source \in Sources
    /\ source_pos \in 0..Len(source)
    /\ byte_table = <<>>
    /\ tree_root = <<>>
    /\ code_table = <<>>
    /\ pack_result = <<>>
    /\ bit_writer = BitWriter_new
    /\ bit_reader = BitReader_new(<<>>)
    /\ UnpackIdle
    /\ CliIdle
    /\ IoIdle

NextPack ==
    \/ PackCount \/ PackBuild \/ PackWriteTree \/ PackWriteLength
    \/ PackEncode \/ PackFlush

SpecSeeked == InitSeeked /\ [][NextPack]_vars

\* --------------------------------------------------------------- unpack_file

\* HeapNode::try_read_root(&mut bit_reader)?, with the early return Ok(0)
UnpackReadRoot ==
    /\ pc = "unpack_root"
    /\ LET t == HeapNode_try_read_root(bit_reader)
       IN /\ bit_reader' = t.reader
          /\ IF ~t.res.ok
             THEN /\ unpack_result' = t.res
                  /\ pc' = "unpack_done"
                  /\ UNCHANGED unpack_root
             ELSE IF t.res.val = None
             THEN /\ unpack_result' = Ok(0)
                  /\ pc' = "unpack_done"
                  /\ UNCHANGED unpack_root
             ELSE /\ unpack_root' = t.res.val[1]
                  /\ pc' = "unpack_length"
                  /\ UNCHANGED unpack_result
    /\ UNCHANGED <<packVars, bit_writer, total_byte_count, bytes_read,
                   current_node, sink, ioVars>>

\* let CompactNumberU64(total_byte_count) = bit_reader.read_readable()?
UnpackReadLength ==
    /\ pc = "unpack_length"
    /\ LET t == CompactNumberU64_read(bit_reader)
       IN /\ bit_reader' = t.reader
          /\ IF ~t.res.ok
             THEN /\ unpack_result' = t.res
                  /\ pc' = "unpack_done"
                  /\ UNCHANGED total_byte_count
             ELSE /\ total_byte_count' = t.res.val
                  /\ pc' = "unpack_while"
                  /\ UNCHANGED unpack_result
    /\ UNCHANGED <<packVars, bit_writer, unpack_root, bytes_read, current_node,
                   sink, ioVars>>

\* while bytes_read < total_byte_count { current_node = &tree_root ... };
\* Ok(bytes_read)
UnpackWhile ==
    /\ pc = "unpack_while"
    /\ IF U64Less(U64(bytes_read), total_byte_count)
       THEN /\ current_node' = unpack_root
            /\ pc' = "unpack_loop"
            /\ UNCHANGED unpack_result
       ELSE /\ unpack_result' = Ok(bytes_read)
            /\ pc' = "unpack_done"
            /\ UNCHANGED current_node
    /\ UNCHANGED <<packVars, bit_writer, bit_reader, unpack_root,
                   total_byte_count, bytes_read, sink, ioVars>>

\* one turn of the inner loop: match current_node
UnpackLoop ==
    /\ pc = "unpack_loop"
    /\ CASE current_node.tag = "Leaf" ->
              /\ sink' = Append(sink, current_node.byte)
              /\ bytes_read' = bytes_read + 1
              /\ pc' = "unpack_while"
              /\ UNCHANGED <<bit_reader, current_node, unpack_result>>
         [] current_node.tag = "Pair" ->
              LET child_bit == read_bits(bit_reader, 1)
              IN /\ bit_reader' = child_bit.reader
                 /\ IF ~child_bit.res.ok
                    THEN /\ unpack_result' = child_bit.res
                         /\ pc' = "unpack_done"
                         /\ UNCHANGED current_node
                    ELSE IF child_bit.res.val = LEFT_BIT
                    THEN /\ current_node' = current_node.left
                         /\ UNCHANGED <<pc, unpack_result>>
                    ELSE IF child_bit.res.val = RIGHT_BIT
                    THEN /\ current_node' = current_node.right
                         /\ UNCHANGED <<pc, unpack_result>>
                    ELSE /\ unpack_result' = Err("unreachable")
                         /\ pc' = "unpack_done"
                         /\ UNCHANGED current_node
                 /\ UNCHANGED <<sink, bytes_read>>
         [] current_node.tag = "Empty" ->
              /\ unpack_result' = Err("InvalidData")
              /\ pc' = "unpack_done"
              /\ UNCHANGED <<bit_reader, current_node, sink, bytes_read>>
    /\ UNCHANGED <<packVars, bit_writer, unpack_root, total_byte_count, ioVars>>

NextUnpack == UnpackReadRoot \/ UnpackReadLength \/ UnpackWhile \/ UnpackLoop

Next ==
    \/ PackCount \/ PackBuild \/ PackWriteTree \/ PackWriteLength
    \/ PackEncode \/ PackFlush \/ StartUnpack
    \/ NextUnpack

Spec == Init /\ [][Next]_vars

\* ------------------------------------------------ unpack_file on any source

\* Byte values of the arbitrary sources handed to unpack_file.  Read LSB-first
\* they give leaf and pair tags, length bytes 0, 1, 2 and 9, and all-ones runs.
FuzzBytes == {0, 1, 2, 8, 18, 255}

FuzzSources == SeqsUpTo(FuzzBytes, MaxFuzzLen)

\* Length bytes of the crafted sources: every accepted one and some rejected.
LengthBytes == 0..(MAX_BYTES_REQUIRED + 2) \cup {255}

\* Sources crafted with the writer: the header of the single-leaf tree Leaf(0),
\* a length byte k, then n value bytes, all different.
LengthSources ==
    {BitWriter_flush(
         write_bytes(write_byte(HeapNode_write(BitWriter_new, Leaf(0)), k),
                     [i \in 1..n |-> IF up THEN i ELSE BYTE_TABLE_LEN - i])).inner :
       k \in LengthBytes, n \in 0..MaxPayload, up \in BOOLEAN}

\* Most bytes a header-only source declares, the large lengths apart.
MaxHeaderLen == 9

\* The largest u64.
U64_MAX == <<LIMB - 1, LIMB - 1, LIMB - 1, LIMB - 1>>

\* The lengths the header-only sources declare: small ones, the first ones
\* that take two and three value bytes, and the largest.
HeaderLengths ==
    {U64(n) : n \in 1..MaxHeaderLen} \cup {U64(BYTE_TABLE_LEN), U64(LIMB), U64_MAX}

\* Sources that hold a flushed header and nothing else: the tree Leaf(s) and
\* a length, written with the writer as pack_file writes them.
HeaderSources ==
    {BitWriter_flush(
         CompactNumberU64_write(HeapNode_write(BitWriter_new, Leaf(s)), n)).inner :
       s \in {0, 1, 255}, n \in HeaderLengths}

\* unpack_file is called on a header-only source
InitHeader ==
    /\ pc = "unpack_root"
    /\ bit_reader \in {BitReader_new(bytes) : bytes \in HeaderSources}
    /\ bit_writer = BitWriter_new
    /\ PackIdle
    /\ UnpackIdle
    /\ CliIdle
    /\ IoIdle

SpecHeader == InitHeader /\ [][NextUnpack]_vars

\* fuzz_huffman_unpack_file: unpack_file is called on arbitrary bytes
InitUnpack ==
    /\ pc = "unpack_root"
    /\ bit_reader \in {BitReader_new(bytes) : bytes \in FuzzSources \cup LengthSources}
    /\ bit_writer = BitWriter_new
    /\ PackIdle
    /\ UnpackIdle
    /\ CliIdle
    /\ IoIdle

SpecUnpack == InitUnpack /\ [][NextUnpack]_vars

\* Longest arbitrary source of the calls checked for termination.
MaxLiveLen == 3

\* unpack_file on short arbitrary sources, on the crafted ones and on the
\* header-only ones.  The header is read in two steps; a decode loop that has
\* been entered and has not ended takes its next turn.
InitUnpackLive ==
    /\ pc = "unpack_root"
    /\ bit_reader \in {BitReader_new(bytes) :
                          bytes \in SeqsUpTo(FuzzBytes, MaxLiveLen)
                                    \cup LengthSources \cup HeaderSources}
    /\ bit_writer = BitWriter_new
    /\ PackIdle
    /\ UnpackIdle
    /\ CliIdle
    /\ IoIdle

SpecUnpackLive ==
    InitUnpackLive /\ [][NextUnpack]_vars /\ WF_vars(UnpackWhile \/ UnpackLoop)

\* ---------------------------------- unpack_file on both kinds of source

\* unpack_file is called on what pack_file wrote, or on arbitrary bytes
InitCodec == Init \/ InitUnpack

SpecCodec == InitCodec /\ [][Next]_vars

\* unpack_file is called on a Cursor over the first n bytes of what pack_file
\* wrote, some bytes at least missing
StartUnpackTruncated ==
    /\ pc = "pack_done"
    /\ pack_result.ok
    /\ \E n \in 0..(Len(bit_writer.inner) - 1) :
          bit_reader' = BitReader_new(SubSeq(bit_writer.inner, 1, n))
    /\ pc' = "unpack_root"
    /\ UNCHANGED <<packVars, bit_writer, unpackVars, ioVars>>

NextTruncated == NextPack \/ StartUnpackTruncated \/ NextUnpack

SpecTruncated == Init /\ [][NextTruncated]_vars

\* ------------------------------------------------ the command-line program

Commands == {"Pack", "Unpack"}

\* Output::File(path) or Output::Stdout
Outputs == {"File", "Stdout"}

\* main: the arguments are parsed; the input file holds a source for pack_file
\* or any bytes for unpack_file
InitCli ==
    /\ pc = "cli_start"
    /\ \E c \in Commands, o \in Outputs :
          cli = [command |-> c, output |-> o, file_exists |-> FALSE,
                 remove_failed |-> FALSE, exit_code |-> "Running"]
    /\ IF cli.command = "Pack"
       THEN /\ source \in Sources
            /\ bit_reader = BitReader_new(<<>>)
       ELSE /\ source = <<>>
            /\ bit_reader \in {BitReader_new(bytes) : bytes \in FuzzSources}
    /\ source_pos = 0
    /\ byte_table = <<>>
    /\ tree_root = <<>>
    /\ code_table = <<>>
    /\ pack_result = <<>>
    /\ bit_writer = BitWriter_new
    /\ unpack_root = <<>>
    /\ total_byte_count = <<>>
    /\ bytes_read = 0
    /\ current_node = <<>>
    /\ sink = <<>>
    /\ unpack_result = <<>>
    /\ history = <<>>
    /\ readback = <<>>

\* try_main up to the call of pack_file or unpack_file: a failed validation or
\* open returns the error to main, which exits with FAILURE; else the output
\* is open, a file output now exists, and the codec is called
CliOpen ==
    /\ pc = "cli_start"
    /\ \E opened \in BOOLEAN :
          IF opened
          THEN /\ cli' = [cli EXCEPT !.file_exists = (cli.output = "File")]
               /\ pc' = IF cli.command = "Pack" THEN "pack_count" ELSE "unpack_root"
          ELSE /\ cli' = [cli EXCEPT !.exit_code = "FAILURE"]
               /\ pc' = "cli_exit"
    /\ UNCHANGED <<source, source_pos, byte_table, tree_root, code_table, pack_result,
                   bit_writer, bit_reader, unpack_root, total_byte_count, bytes_read,
                   current_node, sink, unpack_result, history, readback>>

\* what pack_file or unpack_file returned to try_main
CodecResult == IF cli.command = "Pack" THEN pack_result ELSE unpack_result

\* the outcomes that end the process inside the codec instead of returning
Aborts == {"StackOverflow", "unreachable", "unwrap on None"}

\* try_main after the codec, and main: on Err(err) the output is deleted, and
\* only a failed deletion is returned to main as an error; main exits with
\* FAILURE on an error of try_main and with SUCCESS otherwise.  A codec that
\* aborted never comes back to try_main.
CliFinish ==
    /\ pc \in {"pack_done", "unpack_done"}
    /\ cli.exit_code = "Running"
    /\ IF CodecResult.ok
       THEN cli' = [cli EXCEPT !.exit_code = "SUCCESS"]
       ELSE IF CodecResult.err \in Aborts
       THEN cli' = [cli EXCEPT !.exit_code = "Aborted"]
       ELSE IF cli.output = "Stdout"
       THEN cli' = [cli EXCEPT !.exit_code = "SUCCESS"]
       ELSE \E removed \in BOOLEAN :
              cli' = IF removed
                     THEN [cli EXCEPT !.file_exists = FALSE, !.exit_code = "SUCCESS"]
                     ELSE [cli EXCEPT !.remove_failed = TRUE, !.exit_code = "FAILURE"]
    /\ pc' = "cli_exit"
    /\ UNCHANGED <<source, source_pos, byte_table, tree_root, code_table, pack_result,
                   bit_writer, bit_reader, unpack_root, total_byte_count, bytes_read,
                   current_node, sink, unpack_result, history, readback>>

NextCli ==
    \/ CliOpen
    \/ PackCount \/ PackBuild \/ PackWriteTree \/ PackWriteLength
    \/ PackEncode \/ PackFlush \/ PackReadError \/ PackSeekError
    \/ NextUnpack
    \/ CliFinish

SpecCli == InitCli /\ [][NextCli]_vars

\* ------------------------------------------------ the tree builder under test

\* Bytes with a count in the tables handed to the builder.
TreeSymbols == {0, 1, 2, 3, 255}

\* Their counts: absent, small and equal ones, and two that skew the tree.
TableCounts == 0..MaxCount \cup {2 * MaxCount + 1, 4 * MaxCount + 1}

ByteTables ==
    {[b \in Bytes |-> IF b \in TreeSymbols THEN c[b] ELSE 0] :
        c \in [TreeSymbols -> TableCounts]}

\* create_byte_table!: a table is handed to get_huffman_tree_and_codes
InitTree ==
    /\ pc = "tree_build"
    /\ byte_table \in ByteTables
    /\ source = <<>>
    /\ source_pos = 0
    /\ tree_root = <<>>
    /\ code_table = <<>>
    /\ pack_result = <<>>
    /\ bit_writer = BitWriter_new
    /\ bit_reader = BitReader_new(<<>>)
    /\ UnpackIdle
    /\ CliIdle
    /\ IoIdle

\* get_huffman_tree_and_codes(byte_table): None ends the test
TreeBuild ==
    /\ pc = "tree_build"
    /\ LET built == get_huffman_tree_and_codes(byte_table)
       IN IF built = None
          THEN /\ pc' = "tree_done"
               /\ UNCHANGED <<tree_root, code_table>>
          ELSE /\ tree_root' = built[1].root
               /\ code_table' = built[1].codes
               /\ pc' = "tree_write"
    /\ UNCHANGED <<source, source_pos, byte_table, pack_result, bit_writer,
                   bit_reader, unpackVars, ioVars>>

\* get_test_write_output(|writer| writer.write_writable(&tree)): the tree is
\* written to a fresh BitWriter, which is flushed; history keeps the bit cursor
\* before the flush
TreeWrite ==
    /\ pc = "tree_write"
    /\ LET written == HeapNode_write(bit_writer, tree_root)
       IN /\ history' = <<[op |-> "write_writable", cursor_position |-> written.bit_cursor]>>
          /\ bit_writer' = BitWriter_flush(written)
    /\ bit_reader' = BitReader_new(bit_writer'.inner)
    /\ pc' = "tree_read"
    /\ UNCHANGED <<packVars, unpackVars, readback>>

\* get_test_read_custom_readable_output(bytes, HeapNode::try_read_root)
TreeRead ==
    /\ pc = "tree_read"
    /\ LET t == HeapNode_try_read_root(bit_reader)
       IN /\ bit_reader' = t.reader
          /\ readback' = <<t.res>>
    /\ pc' = "tree_done"
    /\ UNCHANGED <<packVars, unpackVars, bit_writer, history>>

NextTree == TreeBuild \/ TreeWrite \/ TreeRead

SpecTree == InitTree /\ [][NextTree]_vars

\* get_huffman_tree_and_codes on the tables under test and inside pack_file
InitTables == Init \/ InitTree

NextTables == Next \/ NextTree

SpecTables == InitTables /\ [][NextTables]_vars

\* ----------------------------------------------- the code table under test

RECURSIVE Fib(_)
Fib(n) == IF n <= 2 THEN 1 ELSE Fib(n - 1) + Fib(n - 2)

\* Tables of k symbols whose tree is a chain of depth k - 1: counts that double
\* (the pair is always the lighter node) and Fibonacci counts (the pair is
\* always the heavier one), in both byte orders.
SkewTables ==
    {[b \in Bytes |-> IF b >= k THEN 0
                      ELSE LET i == IF up THEN b ELSE k - 1 - b
                           IN IF double THEN Pow2(i) ELSE Fib(i + 1)] :
        k \in 1..MaxSkew, up \in BOOLEAN, double \in BOOLEAN}

\* Tables of k symbols of equal counts: the tree is balanced.
FlatTables ==
    {[b \in Bytes |-> IF b % 5 = 0 /\ b < 5 * k THEN n ELSE 0] :
        k \in 1..MaxSkew, n \in 1..MaxCount}

\* a table is handed to get_huffman_tree_and_codes
InitCodes ==
    /\ pc = "tree_build"
    /\ byte_table \in SkewTables \cup FlatTables
    /\ source = <<>>
    /\ source_pos = 0
    /\ tree_root = <<>>
    /\ code_table = <<>>
    /\ pack_result = <<>>
    /\ bit_writer = BitWriter_new
    /\ bit_reader = BitReader_new(<<>>)
    /\ UnpackIdle
    /\ CliIdle
    /\ IoIdle

\* bit_writer.write_writable(code) for the code of the next symbol, as in the
\* data loop of pack_file: the writer stands at any bit cursor, and is flushed
\* afterwards (get_test_write_output).  The symbols are the counted ones, in
\* ascending order; history keeps the symbol, the cursor and the number of
\* bits the write took.
CodeWrite ==
    /\ pc = "tree_write"
    /\ \E s \in Bytes, c \in 0..(U8_BITS - 1) :
          /\ byte_table[s] # 0
          /\ \A b \in Bytes :
                (byte_table[b] # 0 /\ b < s) => (history # <<>> /\ b <= history[1].symbol)
          /\ history # <<>> => s > history[1].symbol
          /\ LET before == write_bits(BitWriter_new, 85, c)
                 written == HuffmanCode_write(before, code_table[s][1])
             IN /\ bit_writer' = BitWriter_flush(written)
                /\ history' = <<[op |-> "code", symbol |-> s, prefix |-> c,
                                 amount |-> U8_BITS * Len(written.inner)
                                            + written.bit_cursor - c]>>
    /\ UNCHANGED <<pc, packVars, unpackVars, bit_reader, readback>>

NextCodes == TreeBuild \/ CodeWrite

SpecCodes == InitCodes /\ [][NextCodes]_vars

\* ------------------------------------------------- bit I/O under test

\* Values handed to the writer under test: both have bits above every width.
IoValues == {181, 74}

\* get_test_write_output: a fresh BitWriter over an empty Vec
InitBitIO ==
    /\ pc = "io_write"
    /\ bit_writer = BitWriter_new
    /\ bit_reader = BitReader_new(<<>>)
    /\ history = <<>>
    /\ readback = <<>>
    /\ PackIdle
    /\ UnpackIdle
    /\ CliIdle

IoWriteBits ==
    /\ pc = "io_write"
    /\ Len(history) < MaxOps
    /\ \E v \in IoValues, n \in 0..U8_BITS :
          /\ bit_writer' = write_bits(bit_writer, v, n)
          /\ history' = Append(history, [op |-> "write_bits", bits |-> v, amount |-> n])
    /\ UNCHANGED <<pc, bit_reader, readback, packVars, unpackVars>>

IoWriteByte ==
    /\ pc = "io_write"
    /\ Len(history) < MaxOps
    /\ \E v \in IoValues :
          /\ bit_writer' = write_byte(bit_writer, v)
          /\ history' = Append(history, [op |-> "write_byte", bits |-> v, amount |-> U8_BITS])
    /\ UNCHANGED <<pc, bit_reader, readback, packVars, unpackVars>>

\* the flush that ends get_test_write_output; the bytes then go to a BitReader
\* (get_test_read_bytes_output)
IoFlush ==
    /\ pc = "io_write"
    /\ bit_writer' = BitWriter_flush(bit_writer)
    /\ bit_reader' = BitReader_new(bit_writer'.inner)
    /\ pc' = "io_read"
    /\ UNCHANGED <<history, readback, packVars, unpackVars>>

\* the next read of the test closure; a failed read ends the closure (`?`)
IoRead ==
    /\ pc = "io_read"
    /\ Len(readback) < Len(history)
    /\ \A i \in 1..Len(readback) : readback[i].ok
    /\ LET op == history[Len(readback) + 1]
           t == IF op.op = "write_byte" THEN read_byte(bit_reader)
                ELSE read_bits(bit_reader, op.amount)
       IN /\ bit_reader' = t.reader
          /\ readback' = Append(readback, t.res)
    /\ UNCHANGED <<pc, bit_writer, history, packVars, unpackVars>>

NextBitIO == IoWriteBits \/ IoWriteByte \/ IoFlush \/ IoRead

SpecBitIO == InitBitIO /\ [][NextBitIO]_vars

\* ------------------------------------------------ the bit writer's flush

\* Most flushes made on a bit writer under test.
MaxFlushes == 2

\* writer.flush(), after any writes and before any others
FlFlush ==
    /\ pc = "io_write"
    /\ Cardinality({i \in 1..Len(history) : history[i].op = "flush"}) < MaxFlushes
    /\ bit_writer' = BitWriter_flush(bit_writer)
    /\ history' = Append(history, [op |-> "flush", bits |-> 0, amount |-> 0])
    /\ UNCHANGED <<pc, bit_reader, readback, packVars, unpackVars>>

\* the writer goes out of scope: BitWriter implements no Drop, so its fields
\* are dropped as they are and nothing else happens
IoDrop ==
    /\ pc = "io_write"
    /\ pc' = "io_dropped"
    /\ UNCHANGED <<bit_writer, bit_reader, history, readback, packVars, unpackVars>>

NextFlush == IoWriteBits \/ IoWriteByte \/ FlFlush \/ IoDrop

\* a fresh BitWriter takes writes and flushes in any order, and is dropped
SpecFlush == InitBitIO /\ [][NextFlush]_vars

\* ------------------------------------------------ the bit reader under test

ReadSources == SeqsUpTo(IoValues, MaxReadLen)

\* get_test_read_bytes_output: a fresh BitReader over a Cursor on the bytes
InitReader ==
    /\ pc = "rd"
    /\ bit_reader \in {BitReader_new(bytes) : bytes \in ReadSources}
    /\ bit_writer = BitWriter_new
    /\ history = <<>>
    /\ readback = <<>>
    /\ PackIdle
    /\ UnpackIdle
    /\ CliIdle

\* tester.try_read_bits(n): readback keeps the width and the result
RdTryBits ==
    /\ pc = "rd"
    /\ Len(readback) < MaxOps
    /\ \E n \in 0..U8_BITS :
          LET t == try_read_bits(bit_reader, n)
          IN /\ bit_reader' = t.reader
             /\ readback' = Append(readback, [op |-> "try_read_bits", amount |-> n,
                                              res |-> t.res])
    /\ UNCHANGED <<pc, bit_writer, history, packVars, unpackVars>>

\* tester.try_read_byte()
RdTryByte ==
    /\ pc = "rd"
    /\ Len(readback) < MaxOps
    /\ LET t == try_read_byte(bit_reader)
       IN /\ bit_reader' = t.reader
          /\ readback' = Append(readback, [op |-> "try_read_byte", amount |-> U8_BITS,
                                           res |-> t.res])
    /\ UNCHANGED <<pc, bit_writer, history, packVars, unpackVars>>

\* tester.read_bits(n): a hard read
RdBits ==
    /\ pc = "rd"
    /\ Len(readback) < MaxOps
    /\ \E n \in 0..U8_BITS :
          LET t == read_bits(bit_reader, n)
          IN /\ bit_reader' = t.reader
             /\ readback' = Append(readback, [op |-> "read_bits", amount |-> n,
                                              res |-> t.res])
    /\ UNCHANGED <<pc, bit_writer, history, packVars, unpackVars>>

\* tester.read_byte()
RdByte ==
    /\ pc = "rd"
    /\ Len(readback) < MaxOps
    /\ LET t == read_byte(bit_reader)
       IN /\ bit_reader' = t.reader
          /\ readback' = Append(readback, [op |-> "read_byte", amount |-> U8_BITS,
                                           res |-> t.res])
    /\ UNCHANGED <<pc, bit_writer, history, packVars, unpackVars>>

NextReader == RdTryBits \/ RdTryByte \/ RdBits \/ RdByte

SpecReader == InitReader /\ [][NextReader]_vars

\* A read of the bit reader during which inner.read returns an error: the `?`
\* hands the error to the caller.  The failing call is the one of fill_buff
\* (nothing was assigned yet), or the second one: try_read_byte has not
\* assigned bit_buff then, try_read_bits has set it to None and has not
\* stored the new cursor.  The source keeps its position.
RdIoError ==
    /\ pc = "rd"
    /\ Len(readback) < MaxOps
    /\ \E n \in 0..U8_BITS, second \in BOOLEAN :
          LET f == fill_buff(bit_reader)
              sum == bit_reader.bit_cursor + n
          IN /\ IF ~second
                THEN /\ bit_reader.bit_buff = None
                     /\ UNCHANGED bit_reader
                ELSE /\ f.res # None
                     /\ IF n = U8_BITS
                        THEN bit_reader' = f.reader
                        ELSE /\ sum > U8_BITS
                             /\ bit_reader' = [f.reader EXCEPT !.bit_buff = None]
             /\ readback' = Append(readback, [op |-> "io_error", res |-> Err("Other")])
    /\ UNCHANGED <<pc, bit_writer, history, packVars, unpackVars>>

NextReaderIo == NextReader \/ RdIoError

SpecReaderIo == InitReader /\ [][NextReaderIo]_vars

\* ------------------------------------------- CompactNumberU64 under test

\* the u64 values written: for every byte count n, the low n bytes filled with
\* one value, and a single non-zero byte in place n
FillBytes == {1, 128, 255}

CompactValues ==
    {from_le_bytes([i \in 1..U64_BYTES |-> IF i <= n THEN x ELSE 0]) :
        n \in 0..U64_BYTES, x \in FillBytes}
    \cup
    {from_le_bytes([i \in 1..U64_BYTES |-> IF i = n THEN x ELSE 0]) :
        n \in 1..U64_BYTES, x \in FillBytes}
    \cup
    {from_le_bytes([i \in 1..U64_BYTES |-> IF i <= n THEN i ELSE 0]) :
        n \in 1..U64_BYTES}

\* get_test_write_output: a fresh BitWriter over an empty Vec
InitCompact ==
    /\ pc = "cn_start"
    /\ bit_writer = BitWriter_new
    /\ bit_reader = BitReader_new(<<>>)
    /\ history = <<>>
    /\ readback = <<>>
    /\ PackIdle
    /\ UnpackIdle
    /\ CliIdle

\* bits written before the number, which leave the writer at any bit cursor
CnPrefix ==
    /\ pc = "cn_start"
    /\ \E v \in IoValues, n \in 0..(U8_BITS - 1) :
          /\ bit_writer' = write_bits(bit_writer, v, n)
          /\ history' = Append(history, [op |-> "write_bits", bits |-> v, amount |-> n])
    /\ pc' = "cn_write"
    /\ UNCHANGED <<bit_reader, readback, packVars, unpackVars>>

\* writer.write_writable(CompactNumberU64(v))
CnWrite ==
    /\ pc = "cn_write"
    /\ \E v \in CompactValues :
          /\ bit_writer' = CompactNumberU64_write(bit_writer, v)
          /\ history' = Append(history, [op |-> "compact", value |-> v])
    /\ pc' = "cn_flush"
    /\ UNCHANGED <<bit_reader, readback, packVars, unpackVars>>

\* the flush that ends get_test_write_output; the bytes then go to a BitReader
CnFlush ==
    /\ pc = "cn_flush"
    /\ bit_writer' = BitWriter_flush(bit_writer)
    /\ bit_reader' = BitReader_new(bit_writer'.inner)
    /\ pc' = "cn_read_prefix"
    /\ UNCHANGED <<history, readback, packVars, unpackVars>>

\* the bits written before the number are read back
CnReadPrefix ==
    /\ pc = "cn_read_prefix"
    /\ LET t == read_bits(bit_reader, history[1].amount)
       IN /\ bit_reader' = t.reader
          /\ readback' = Append(readback, t.res)
          /\ pc' = IF t.res.ok THEN "cn_read" ELSE "cn_done"
    /\ UNCHANGED <<bit_writer, history, packVars, unpackVars>>

\* get_test_read_readable_output: reader.read_readable::<CompactNumberU64>()
CnRead ==
    /\ pc = "cn_read"
    /\ LET t == CompactNumberU64_read(bit_reader)
       IN /\ bit_reader' = t.reader
          /\ readback' = Append(readback, t.res)
    /\ pc' = "cn_done"
    /\ UNCHANGED <<bit_writer, history, packVars, unpackVars>>

NextCompact == CnPrefix \/ CnWrite \/ CnFlush \/ CnReadPrefix \/ CnRead

SpecCompact == InitCompact /\ [][NextCompact]_vars

\* ------------------------------------------------------- reference notions

\* The low n bits of a value, least significant first.
LowBits(v, n) == [i \in 1..n |-> Bit(v, i - 1)]

\* The bits of a sequence of whole bytes.
RECURSIVE BytesBits(_)
BytesBits(bytes) ==
    IF bytes = <<>> THEN <<>>
    ELSE LowBits(Head(bytes), U8_BITS) \o BytesBits(Tail(bytes))

\* A bit sequence packed LSB-first into bytes, the last byte padded with zeros.
PackBits(bits) ==
    [j \in 1..((Len(bits) + U8_BITS - 1) \div U8_BITS) |->
        LET RECURSIVE sum(_)
            sum(i) == IF i = U8_BITS THEN 0
                      ELSE (IF (j - 1) * U8_BITS + i + 1 <= Len(bits)
                            THEN bits[(j - 1) * U8_BITS + i + 1] * Pow2(i) ELSE 0)
                           + sum(i + 1)
        IN sum(0)]

\* The bit stream a byte sequence holds, and the byte that starts at bit p of it.
SourceBits(bytes) ==
    [i \in 1..(U8_BITS * Len(bytes)) |->
        Bit(bytes[(i - 1) \div U8_BITS + 1], (i - 1) % U8_BITS)]

ByteAt(bits, p) ==
    LET RECURSIVE sum(_)
        sum(i) == IF i = U8_BITS THEN 0 ELSE bits[p + i + 1] * Pow2(i) + sum(i + 1)
    IN sum(0)

\* The number of bits of its source a reader has handed out: the staged byte
\* is the last one fetched, and bit_cursor bits of it are used.
BitPosition(r) ==
    IF r.bit_buff = None THEN U8_BITS * r.pos + r.bit_cursor
    ELSE U8_BITS * (r.pos - 1) + r.bit_cursor

\* Byte j (1 the least significant) of a u64, and the fewest bytes, at least
\* one, that hold it.
ByteOfU64(v, j) ==
    IF j % 2 = 1 THEN v[(j + 1) \div 2] % Pow2(U8_BITS)
    ELSE v[(j + 1) \div 2] \div Pow2(U8_BITS)

MinBytes(v) ==
    LET used == {j \in 1..U64_BYTES : ByteOfU64(v, j) # 0}
    IN IF used = {} THEN 1 ELSE CHOOSE j \in used : \A i \in used : i <= j

\* The compact-U64 wire form: the length byte, then that many low-order bytes.
WireBytes(v) == <<MinBytes(v)>> \o [j \in 1..MinBytes(v) |-> ByteOfU64(v, j)]

\* The bits a sequence of writes denotes.
RECURSIVE WrittenBits(_)
WrittenBits(h) ==
    IF h = <<>> THEN <<>>
    ELSE (IF Head(h).op = "compact" THEN BytesBits(WireBytes(Head(h).value))
          ELSE LowBits(Head(h).bits, Head(h).amount))
         \o WrittenBits(Tail(h))

\* The preorder serialization of a tree: tag 0 and the byte for a leaf, tag 1
\* and both subtrees for a pair.
RECURSIVE TreeBits(_)
TreeBits(node) ==
    IF node.tag = "Leaf" THEN <<0>> \o LowBits(node.byte, U8_BITS)
    ELSE <<1>> \o TreeBits(node.left) \o TreeBits(node.right)

RECURSIVE Leaves(_)
Leaves(node) ==
    IF node.tag = "Leaf" THEN {node.byte}
    ELSE IF node.tag = "Pair" THEN Leaves(node.left) \cup Leaves(node.right)
    ELSE {}

\* The root-to-leaf path to a symbol, 0 for left and 1 for right; the codeword
\* of the only symbol of a single-leaf tree is one 0.
RECURSIVE Path(_, _)
Path(node, s) ==
    IF node.tag = "Leaf" THEN <<>>
    ELSE IF s \in Leaves(node.left) THEN <<0>> \o Path(node.left, s)
    ELSE <<1>> \o Path(node.right, s)

Codeword(root, s) == IF root.tag = "Leaf" THEN <<0>> ELSE Path(root, s)

RECURSIVE DataBits(_, _)
DataBits(root, bytes) ==
    IF bytes = <<>> THEN <<>>
    ELSE Codeword(root, Head(bytes)) \o DataBits(root, Tail(bytes))

\* The bit stream of the container of a non-empty source.
ContainerBits ==
    TreeBits(tree_root) \o BytesBits(WireBytes(U64(Len(source))))
    \o DataBits(tree_root, source)

Range(f) == {f[i] : i \in DOMAIN f}

\* pack_file has returned
PackReturned == pack_result # <<>>

\* ------------------------------------------------------------------- claims

\* C1: unpacking what pack_file produced from a source at its start writes
\* exactly the source to the sink and returns its length.
C1_RoundTrip ==
    pc = "unpack_done" => (sink = source /\ unpack_result = Ok(Len(source)))

C1_Witness ==
    /\ pc = "unpack_done"
    /\ Cardinality(Range(source)) >= 3
    /\ sink = source

\* C2: whatever the source, unpack_file ends with Ok, InvalidData or
\* UnexpectedEof; it never panics or aborts.
C2_UnpackNeverAborts ==
    pc = "unpack_done" =>
        \/ unpack_result.ok
        \/ unpack_result.err \in {"InvalidData", "UnexpectedEof"}

\* C3: pack_file on an empty source writes nothing and returns 0; unpack_file
\* on an empty source writes nothing and returns Ok(0).
C3_EmptyInput ==
    /\ (PackReturned /\ source = <<>>) =>
          /\ pack_result = Ok(0)
          /\ bit_writer.inner = <<>>
          /\ bit_writer.bit_cursor = 0
    /\ (pc = "unpack_done" /\ bit_reader.inner = <<>>) =>
          /\ unpack_result = Ok(0)
          /\ sink = <<>>

C3_Witness ==
    /\ pc = "unpack_done"
    /\ source = <<>>
    /\ bit_reader.inner = <<>>
    /\ pack_result = Ok(0)
    /\ unpack_result = Ok(0)

\* C4: the container of a non-empty source is the tree, the compact-U64 of the
\* length and the codewords of the bytes in order, packed LSB-first, only the
\* last byte padded with zeros.
C4_ContainerLayout ==
    (PackReturned /\ source # <<>>) => bit_writer.inner = PackBits(ContainerBits)

C4_Witness ==
    /\ PackReturned
    /\ Cardinality(Range(source)) >= 3
    /\ Len(ContainerBits) % U8_BITS # 0
    /\ bit_writer.inner = PackBits(ContainerBits)

\* C5: pack_file returns the number of bytes it wrote: 0 for an empty source,
\* else the emitted bits rounded up to whole bytes.
C5_ReturnsBytesWritten ==
    PackReturned =>
        /\ pack_result = Ok(Len(bit_writer.inner))
        /\ pack_result.val =
             IF source = <<>> THEN 0
             ELSE (Len(ContainerBits) + U8_BITS - 1) \div U8_BITS

C5_Witness ==
    /\ PackReturned
    /\ Len(source) = MaxLen
    /\ pack_result.ok
    /\ pack_result.val > MaxLen

\* C6: every value read back with the widths of the writes is the value written,
\* masked to its width.
C6_BitIoRoundTrip ==
    \A i \in 1..Len(readback) :
        readback[i] = Ok(history[i].bits % Pow2(history[i].amount))

\* C7: after the flush the k-th bit written is bit (k mod 8) of byte (k div 8),
\* only the low `amount` bits of each value are written, and the last byte is
\* zero above the final cursor.
C7_LsbFirstOrder ==
    pc = "io_read" => bit_writer.inner = PackBits(WrittenBits(history))

C7_Witness ==
    /\ pc = "io_read"
    /\ Len(history) = MaxOps
    /\ history[1].amount = 5
    /\ history[2].amount = 7
    /\ Len(bit_writer.inner) >= 2

\* C8: a CompactNumberU64 written at any bit cursor is read back as the same
\* value.
C8_CompactRoundTrip ==
    pc = "cn_done" => (Len(readback) = 2 /\ readback[2] = Ok(history[2].value))

C8_Witness ==
    /\ pc = "cn_done"
    /\ history[1].amount = 3
    /\ history[2].value = from_le_bytes([i \in 1..U64_BYTES |-> 255])
    /\ readback[2].ok

\* C9: the wire form is the length byte k and the k low-order bytes of the
\* value, k the smallest of 1..8 that holds the value.
C9_CompactWireForm ==
    pc \in {"cn_read_prefix", "cn_read", "cn_done"} =>
        /\ bit_writer.inner = PackBits(WrittenBits(history))
        /\ required_number_of_bytes(history[2].value) \in 1..MAX_BYTES_REQUIRED

C9_Witness ==
    /\ pc = "cn_done"
    /\ history[1].amount = 0
    /\ history[2].value = U64(0)
    /\ bit_writer.inner = <<1, 0>>

\* C10: a length byte above 8 ends unpack_file with InvalidData before any
\* value byte is read; a length byte k of 0..8 followed by k bytes is accepted
\* and the bytes are zero-extended to the 64-bit count.
C10_LengthByte ==
    [][pc = "unpack_length" =>
         LET bits == SourceBits(bit_reader.inner)
             p == BitPosition(bit_reader)
             k == ByteAt(bits, p)
         IN p + U8_BITS <= Len(bits) =>
              /\ k > 8 =>
                   /\ pc' = "unpack_done"
                   /\ unpack_result' = Err("InvalidData")
                   /\ BitPosition(bit_reader') = p + U8_BITS
              /\ (k <= 8 /\ p + U8_BITS * (k + 1) <= Len(bits)) =>
                   /\ pc' = "unpack_while"
                   /\ \A j \in 1..U64_BYTES :
                        ByteOfU64(total_byte_count', j) =
                          IF j <= k THEN ByteAt(bits, p + U8_BITS * j) ELSE 0
    ]_vars

C10_Witness ==
    /\ pc = "unpack_done"
    /\ unpack_root # <<>>
    /\ total_byte_count = <<>>
    /\ unpack_result = Err("InvalidData")

\* The next bit a reader will hand out: <<>> at the end of its source.
NextBit(r) ==
    LET bits == SourceBits(r.inner)
        p == BitPosition(r)
    IN IF p < Len(bits) THEN <<bits[p + 1]>> ELSE <<>>

\* The tree a single-leaf header is read as.
SingleLeaf(root) ==
    root.tag = "Pair" /\ root.left.tag = "Leaf" /\ root.right.tag = "Empty"

\* C11: in a single-leaf file a 1 bit met at the root while bytes are still due
\* leads to Empty, and Empty ends unpack_file with InvalidData: nothing more is
\* written or read.  A single-leaf file written by pack_file never gets there:
\* its decoding never stands on Empty and ends with Ok.
C11_EmptyNode ==
    [][/\ (/\ pc = "unpack_loop"
           /\ SingleLeaf(unpack_root)
           /\ current_node = unpack_root
           /\ NextBit(bit_reader) = <<1>>) =>
             /\ pc' = "unpack_loop"
             /\ current_node'.tag = "Empty"
             /\ sink' = sink
             /\ bytes_read' = bytes_read
       /\ (pc = "unpack_loop" /\ current_node.tag = "Empty") =>
             /\ SingleLeaf(unpack_root)
             /\ pc' = "unpack_done"
             /\ unpack_result' = Err("InvalidData")
             /\ sink' = sink
             /\ bytes_read' = bytes_read
             /\ bit_reader' = bit_reader
       /\ (pc = "unpack_loop" /\ source # <<>> /\ SingleLeaf(unpack_root)) =>
             /\ current_node.tag # "Empty"
             /\ current_node'.tag # "Empty"
       /\ (pc' = "unpack_done" /\ source # <<>> /\ Cardinality(Range(source)) = 1) =>
             unpack_result' = Ok(Len(source))
    ]_vars

C11_Witness ==
    /\ pc = "unpack_done"
    /\ source = <<>>
    /\ total_byte_count # <<>>
    /\ current_node # <<>>
    /\ SingleLeaf(unpack_root)
    /\ current_node.tag = "Empty"
    /\ bytes_read > 0
    /\ U64Less(U64(bytes_read), total_byte_count)
    /\ unpack_result = Err("InvalidData")

\* The symbols a table counts, and the weight of a set of them.
Present(table) == {b \in Bytes : table[b] # 0}

RECURSIVE Weight(_, _)
Weight(table, S) ==
    IF S = {} THEN 0
    ELSE LET s == CHOOSE x \in S : TRUE
         IN table[s] + Weight(table, S \ {s})

SetMin(S) == CHOOSE x \in S : \A y \in S : x <= y

\* The least cost of a prefix-free binary code over the symbols S: a code
\* tree splits S in two, and every symbol below the split pays one more bit.
\* A lone symbol below a split pays nothing more.
RECURSIVE LeastCost(_, _)
LeastCost(table, S) ==
    IF Cardinality(S) <= 1 THEN 0
    ELSE LET m == SetMin(S)
             splits == {A \in SUBSET S : m \in A /\ A # S}
         IN Weight(table, S)
            + SetMin({LeastCost(table, A) + LeastCost(table, S \ A) : A \in splits})

\* The least cost of a code for a table; the only symbol of a one-symbol
\* table costs one bit per occurrence.
OptimalCost(table) ==
    IF Cardinality(Present(table)) = 1 THEN Weight(table, Present(table))
    ELSE LeastCost(table, Present(table))

\* The bits of a HuffmanCode in the order they are written, and their number.
CodeBits(code) ==
    LowBits(code.bytes[1], code.last) \o BytesBits(Tail(code.bytes))

CodeLen(code) == code.last + U8_BITS * (Len(code.bytes) - 1)

RECURSIVE TableCost(_, _, _)
TableCost(table, codes, S) ==
    IF S = {} THEN 0
    ELSE LET s == CHOOSE x \in S : TRUE
         IN table[s] * CodeLen(codes[s][1]) + TableCost(table, codes, S \ {s})

IsPrefix(a, b) == Len(a) <= Len(b) /\ SubSeq(b, 1, Len(a)) = a

\* C12: the code table built for a non-empty table gives every counted symbol
\* a codeword, no codeword is a prefix of another, and the sum of count times
\* codeword length is the least any prefix-free binary code reaches.
C12_OptimalPrefixCode ==
    (pc \in {"tree_write", "tree_read", "tree_done"} /\ Present(byte_table) # {}) =>
        /\ \A s \in Present(byte_table) : code_table[s] # None
        /\ \A a, b \in Present(byte_table) :
              a # b => ~IsPrefix(CodeBits(code_table[a][1]), CodeBits(code_table[b][1]))
        /\ TableCost(byte_table, code_table, Present(byte_table))
             = OptimalCost(byte_table)

C12_Witness ==
    /\ pc = "tree_done"
    /\ Cardinality(Present(byte_table)) = Cardinality(TreeSymbols)
    /\ byte_table[0] = 1
    /\ byte_table[1] = 1
    /\ byte_table[2] = MaxCount
    /\ byte_table[3] = 2 * MaxCount + 1
    /\ byte_table[255] = 4 * MaxCount + 1
    /\ CodeLen(code_table[0][1]) = 4
    /\ CodeLen(code_table[255][1]) = 1

\* C13 as stated: the tree read back from the serialization of the built tree
\* is the built tree, and the reader stands on the first bit after the tree.
C13_TreeRoundTrip ==
    (pc = "tree_done" /\ Present(byte_table) # {}) =>
        /\ readback = <<Ok(Some(tree_root))>>
        /\ BitPosition(bit_reader) = Len(TreeBits(tree_root))

\* C13 amended: the tree read back is the built tree when it is a pair, and
\* Pair{built leaf, Empty} when the built tree is a single leaf; the reader
\* stands on the first bit after the tree.
C13_TreeRoundTripWrapped ==
    (pc = "tree_done" /\ Present(byte_table) # {}) =>
        /\ readback = <<Ok(Some(IF tree_root.tag = "Leaf" THEN Pair(tree_root, Empty)
                                 ELSE tree_root))>>
        /\ BitPosition(bit_reader) = Len(TreeBits(tree_root))
        /\ history[1].cursor_position = Len(TreeBits(tree_root)) % U8_BITS

C13_Witness ==
    /\ pc = "tree_done"
    /\ Cardinality(Present(byte_table)) = Cardinality(TreeSymbols)
    /\ readback = <<Ok(Some(tree_root))>>
    /\ tree_root.left.tag = "Pair"
    /\ BitPosition(bit_reader) % U8_BITS # 0

\* The number of bits a writer has taken: those sent and those pending.
WriterBits(w) == U8_BITS * Len(w.inner) + w.bit_cursor

\* The states of pack_file on the source [0x00, 0x01]: the tree is written,
\* the length is written, the data is written.
TwoByteSource == source = <<0, 1>>

TreeWritten == pc = "pack_length"

LengthWritten == pc = "pack_data" /\ source_pos = 0

DataWritten == pc = "pack_data" /\ source_pos = Len(source)

\* C14 as stated: for [0x00, 0x01] the tree takes 27 bits, the length 16 and
\* the data 2, 45 bits in all, and the container is 6 bytes long.
C14_TwoByteContainer ==
    TwoByteSource =>
        /\ TreeWritten => WriterBits(bit_writer) = 27
        /\ LengthWritten => WriterBits(bit_writer) = 27 + 16
        /\ DataWritten => WriterBits(bit_writer) = 45
        /\ PackReturned => (pack_result = Ok(6) /\ Len(bit_writer.inner) = 6)

\* C14 amended: for [0x00, 0x01] the tree takes 19 bits (the pair tag and two
\* leaves of 1 + 8 bits), the length 16 and the data 2, 37 bits in all, and the
\* container is 5 bytes long.
C14_TwoByteContainer5 ==
    TwoByteSource =>
        /\ TreeWritten => WriterBits(bit_writer) = 1 + (1 + 8) + (1 + 8)
        /\ LengthWritten => WriterBits(bit_writer) = 19 + 16
        /\ DataWritten => WriterBits(bit_writer) = 19 + 16 + 2
        /\ PackReturned => (pack_result = Ok(5) /\ Len(bit_writer.inner) = 5)

C14_Witness ==
    /\ TwoByteSource
    /\ pc = "pack_done"
    /\ tree_root = Pair(Leaf(0), Leaf(1))
    /\ pack_result = Ok(5)

\* The source is N >= 1 copies of one byte.
SingleSymbol == source # <<>> /\ Cardinality(Range(source)) = 1

\* C15: for N >= 1 copies of one byte b the built tree is Leaf(b) and b's
\* codeword is one 0 bit; pack_file writes the tag 0, the 8 bits of b, the
\* compact-U64 of N and N zero bits; the tree reader returns Pair{Leaf(b), Empty}.
C15_SingleSymbol ==
    SingleSymbol =>
        LET b == source[1]
            N == Len(source)
        IN /\ pc \notin {"pack_count", "pack_build"} =>
                /\ tree_root = Leaf(b)
                /\ code_table[b] = Some(HuffmanCode(<<0>>, 1))
                /\ CodeBits(code_table[b][1]) = <<0>>
           /\ TreeWritten => bit_writer.inner = <<(2 * b) % Pow2(U8_BITS)>>
           /\ TreeWritten => WriterBits(bit_writer) = 1 + U8_BITS
           /\ PackReturned =>
                bit_writer.inner =
                    PackBits(<<0>> \o LowBits(b, U8_BITS)
                             \o BytesBits(WireBytes(U64(N)))
                             \o [i \in 1..N |-> 0])
           /\ pc \in {"unpack_length", "unpack_while", "unpack_loop", "unpack_done"} =>
                unpack_root = Pair(Leaf(b), Empty)

C15_Witness ==
    /\ pc = "unpack_done"
    /\ SingleSymbol
    /\ Len(source) = MaxLen
    /\ source[1] = 255
    /\ unpack_root = Pair(Leaf(255), Empty)
    /\ pack_result = Ok(4)

\* C16: whenever pack_file has returned, with Ok or with an error, the bit
\* writer holds no pending bits: every bit handed to it is in the sink.
C16_FlushOnEveryExit ==
    PackReturned => bit_writer.bit_cursor = 0

\* The number of source bytes whose codes the data loop has written.
BytesEncoded == source_pos

\* C17: wherever the source stands when pack_file is called, the byte table
\* counts every byte of the source, so every byte met by the data loop has a
\* code, and the length written in the header is the number of bytes encoded.
C17_CountsFromStart ==
    /\ pc \notin {"pack_count"} => byte_table = get_byte_table(source, 0)
    /\ PackReturned =>
          /\ pack_result.ok
          /\ TableSum(byte_table) = Len(source)
          /\ source # <<>> => BytesEncoded = TableSum(byte_table)

\* The read a step has just made, when it made one.
ReadMade == Len(readback') = Len(readback) + 1

\* C18: a read of zero bits, in every state of the reader, returns 0, leaves
\* bit_cursor as it is and takes nothing from the source: the reader's position
\* in its source is unchanged.
C18_ZeroBitRead ==
    [][(ReadMade /\ readback'[Len(readback')].op = "try_read_bits"
                 /\ readback'[Len(readback')].amount = 0) =>
          /\ readback'[Len(readback')].res = Some(0)
          /\ bit_reader'.bit_cursor = bit_reader.bit_cursor
          /\ BitPosition(bit_reader') = BitPosition(bit_reader)
    ]_vars

\* The step is a call of flush.
FlushMade ==
    /\ Len(history') = Len(history) + 1
    /\ history'[Len(history')].op = "flush"

\* The call before this one was a flush.
AfterFlush == history # <<>> /\ history[Len(history)].op = "flush"

\* C19: a flush with pending bits sends one byte, the pending bits padded with
\* zeros, and a flush at cursor 0 sends nothing and changes nothing; after a
\* flush the cursor and the accumulator are 0; a flush right after a flush
\* changes nothing.
C19_Flush ==
    [][FlushMade =>
          /\ bit_writer.bit_cursor # 0 =>
                bit_writer'.inner =
                    Append(bit_writer.inner,
                           bit_writer.bit_buff % Pow2(bit_writer.bit_cursor))
          /\ bit_writer.bit_cursor = 0 => bit_writer' = bit_writer
          /\ bit_writer'.bit_cursor = 0
          /\ bit_writer'.bit_buff = 0
          /\ AfterFlush => bit_writer' = bit_writer
    ]_vars

C19_Witness ==
    /\ Len(history) = 3
    /\ history[1].op = "write_bits"
    /\ history[1].amount = 3
    /\ history[1].bits = 181
    /\ history[2].op = "flush"
    /\ history[3].op = "flush"
    /\ bit_writer = [inner |-> <<5>>, byte_count |-> 1, bit_buff |-> 0, bit_cursor |-> 0]

\* C20: a BitWriter is never dropped with pending bits and no panic: a drop at
\* bit_cursor # 0 panics, so a writer that was dropped quietly holds no bits.
C20_DropPanics ==
    pc = "io_dropped" => bit_writer.bit_cursor = 0

\* A read of the reader under test is soft (try_read_*) or hard; it failed when
\* it returned None or an error.
SoftRead(e) == e.op \in {"try_read_bits", "try_read_byte"}

ReadFailed(e) == IF SoftRead(e) THEN e.res = None ELSE ~e.res.ok

NoReadFailed == \A i \in 1..Len(readback) : ~ReadFailed(readback[i])

\* The bits of its source a reader has not handed out, and the value of the
\* n bits that start at bit p of a bit stream.
UnreadBits(r) == U8_BITS * Len(r.inner) - BitPosition(r)

RECURSIVE BitsAt(_, _, _)
BitsAt(bits, p, n) ==
    IF n = 0 THEN 0 ELSE bits[p + 1] + 2 * BitsAt(bits, p + 1, n - 1)

\* C21: on a reader none of whose reads has failed, a read of n bits, 1 <= n <= 8,
\* fails exactly when fewer than n bits of the source are unread, a hard read
\* with UnexpectedEof and a soft one with None; otherwise it returns the next
\* n bits.
C21_HardEof ==
    [][(ReadMade /\ NoReadFailed /\ readback'[Len(readback')].amount >= 1) =>
          LET e == readback'[Len(readback')]
              enough == UnreadBits(bit_reader) >= e.amount
              next == BitsAt(SourceBits(bit_reader.inner), BitPosition(bit_reader),
                             e.amount)
          IN IF SoftRead(e)
             THEN e.res = IF enough THEN Some(next) ELSE None
             ELSE e.res = IF enough THEN Ok(next) ELSE Err("UnexpectedEof")
    ]_vars

C21_Witness ==
    /\ Len(readback) = 3
    /\ Len(bit_reader.inner) = 2
    /\ readback[1].op = "read_bits" /\ readback[1].amount = 5 /\ readback[1].res.ok
    /\ readback[2].op = "read_byte" /\ readback[2].res.ok
    /\ readback[3].op = "read_bits" /\ readback[3].amount = 4
    /\ readback[3].res = Err("UnexpectedEof")

\* The codec returned an error to the command-line program.
CodecFailed ==
    /\ CodecResult # <<>>
    /\ ~CodecResult.ok
    /\ CodecResult.err \notin Aborts

\* C22: when the program has exited after pack_file or unpack_file returned an
\* error, the output file it opened is gone, unless the file system refused to
\* remove it, and the exit code is not SUCCESS; the exit code is SUCCESS only
\* when the operation succeeded.
C22_CliExitStatus ==
    pc = "cli_exit" =>
        /\ CodecFailed => (~cli.file_exists \/ cli.remove_failed)
        /\ CodecFailed => cli.exit_code # "SUCCESS"
        /\ cli.exit_code = "SUCCESS" => (CodecResult # <<>> /\ CodecResult.ok)

\* The leaf a tree walk reaches on a bit sequence (0 = left, 1 = right), or -1
\* when the bits end before a leaf or go on after one.
RECURSIVE Walk(_, _)
Walk(node, bits) ==
    IF node.tag = "Leaf" THEN (IF bits = <<>> THEN node.byte ELSE -1)
    ELSE IF node.tag # "Pair" \/ bits = <<>> THEN -1
    ELSE Walk(IF Head(bits) = LEFT_BIT THEN node.left ELSE node.right, Tail(bits))

\* The bits the last code write put on the sink.
EmittedBits ==
    SubSeq(SourceBits(bit_writer.inner),
           history[1].prefix + 1, history[1].prefix + history[1].amount)

CodeWritten == pc = "tree_write" /\ history # <<>> /\ history[1].op = "code"

\* C23: for a table of at least two symbols, the bits that writing
\* code_table[s] puts on the sink are the root-to-leaf path to Leaf(s) in the
\* built tree, root decision first, whatever the length of the codeword; a
\* tree walk over them ends in Leaf(s).
C23_CodewordIsPath ==
    (CodeWritten /\ Cardinality(Present(byte_table)) >= 2) =>
        /\ EmittedBits = Path(tree_root, history[1].symbol)
        /\ Walk(tree_root, EmittedBits) = history[1].symbol

C23_Witness ==
    /\ CodeWritten
    /\ Cardinality(Present(byte_table)) >= 2
    /\ history[1].amount = 2 * U8_BITS
    /\ history[1].prefix = 3
    /\ \E i, j \in 1..(2 * U8_BITS) : EmittedBits[i] # EmittedBits[j]

\* Every Pair of a tree has a left subtree that counts at least as much as
\* its right one.
RECURSIVE LeftHeavy(_, _)
LeftHeavy(node, table) ==
    node.tag = "Pair" =>
        /\ Weight(table, Leaves(node.left)) >= Weight(table, Leaves(node.right))
        /\ LeftHeavy(node.left, table)
        /\ LeftHeavy(node.right, table)

TreeBuilt == pc \in {"tree_write", "tree_read", "tree_done"} /\ tree_root # <<>>

\* C24: in every Pair of the built tree the left subtree counts at least as
\* much as the right one; two symbols a < b of equal counts give
\* Pair{Leaf a, Leaf b}; the four symbols 0..3 of equal counts give
\* Pair{Pair{Leaf 2, Leaf 3}, Pair{Leaf 0, Leaf 1}}.
C24_MergeTieBreak ==
    TreeBuilt =>
        LET present == Present(byte_table)
        IN /\ present # {} => LeftHeavy(tree_root, byte_table)
           /\ \A a, b \in present :
                 (a < b /\ present = {a, b} /\ byte_table[a] = byte_table[b])
                     => tree_root = Pair(Leaf(a), Leaf(b))
           /\ (present = 0..3 /\ \A s \in 0..3 : byte_table[s] = byte_table[0])
                 => tree_root = Pair(Pair(Leaf(2), Leaf(3)), Pair(Leaf(0), Leaf(1)))

C24_Witness ==
    /\ TreeBuilt
    /\ Present(byte_table) = 0..3
    /\ \A s \in 0..3 : byte_table[s] = MaxCount
    /\ tree_root = Pair(Pair(Leaf(2), Leaf(3)), Pair(Leaf(0), Leaf(1)))

\* The number of leaves of a tree.
RECURSIVE LeafCount(_)
LeafCount(node) ==
    IF node.tag = "Leaf" THEN 1
    ELSE IF node.tag = "Pair" THEN LeafCount(node.left) + LeafCount(node.right)
    ELSE 0

\* C25: once the tree and the code table are built, a symbol has a codeword,
\* of one bit at least, exactly when its count is not zero; the leaves of the
\* tree are the counted symbols, each once; and the encoding pass of
\* pack_file over the bytes it counted never finds a symbol without a
\* codeword.
C25_CodeTableCoverage ==
    /\ code_table # <<>> =>
          /\ \A s \in Bytes : (code_table[s] # None) <=> (byte_table[s] # 0)
          /\ \A s \in Present(byte_table) : CodeLen(code_table[s][1]) >= 1
          /\ Leaves(tree_root) = Present(byte_table)
          /\ LeafCount(tree_root) = Cardinality(Present(byte_table))
    /\ pack_result # Err("unwrap on None")

C25_Witness ==
    /\ pc = "pack_done"
    /\ pack_result # <<>>
    /\ pack_result.ok
    /\ source_pos = MaxLen
    /\ code_table # <<>>
    /\ Cardinality(Present(byte_table)) = 2
    /\ \E s \in Present(byte_table) : byte_table[s] = 1

\* The bits the successful reads of a run returned.
RECURSIVE ReturnedBits(_)
ReturnedBits(reads) ==
    IF reads = <<>> THEN 0
    ELSE LET e == Head(reads)
             returned == IF e.op = "io_error" THEN FALSE
                         ELSE IF SoftRead(e) THEN e.res # None
                         ELSE e.res.ok
         IN (IF returned THEN e.amount ELSE 0) + ReturnedBits(Tail(reads))

\* C26: after any run of reads, the ones that met the end of the source or an
\* error of the source included, bit_cursor is in 0..7 and is the number of
\* bits the successful reads returned, modulo 8.
C26_CursorAccounting ==
    pc = "rd" =>
        /\ bit_reader.bit_cursor \in 0..(U8_BITS - 1)
        /\ bit_reader.bit_cursor = ReturnedBits(readback) % U8_BITS

C26_Witness ==
    /\ pc = "rd"
    /\ Len(readback) = 3
    /\ readback[1].op = "try_read_bits" /\ readback[1].amount = 5
    /\ readback[1].res # None
    /\ readback[2].op = "io_error"
    /\ bit_reader.bit_buff = None
    /\ readback[3].op = "try_read_bits" /\ readback[3].amount = 4
    /\ readback[3].res = None
    /\ bit_reader.bit_cursor = 5

\* C27 as stated: the bit writer's cursor is 0 when the tree has been written
\* and the length header starts.
C27_LengthAligned == TreeWritten => bit_writer.bit_cursor = 0

\* C27: when the tree has been written and the length header starts, the
\* writer has taken 10 * L - 1 bits for a tree of L leaves (a tag bit and a
\* byte per leaf, a tag bit per pair) and its cursor is that number modulo 8,
\* which is never 0: the length header starts inside a byte.
C27_LengthUnaligned ==
    TreeWritten =>
        LET treeBits == (U8_BITS + 2 * TYPE_FLAG_SIZE) * LeafCount(tree_root)
                        - TYPE_FLAG_SIZE
        IN /\ WriterBits(bit_writer) = treeBits
           /\ bit_writer.bit_cursor = treeBits % U8_BITS
           /\ bit_writer.bit_cursor # 0

C27_Witness ==
    /\ TreeWritten
    /\ LeafCount(tree_root) = 3
    /\ bit_writer.bit_cursor = 5
    /\ Len(bit_writer.inner) = 3

\* The zero bits the flush adds after a header of a single-leaf tree: the tree
\* takes a tag bit and a byte, the length whole bytes.
HeaderPadding == U8_BITS - TYPE_FLAG_SIZE

\* n copies of a byte.
Copies(n, b) == [i \in 1..n |-> b]

HeaderUnpacked ==
    /\ pc = "unpack_done"
    /\ unpack_root # <<>>
    /\ total_byte_count # <<>>
    /\ SingleLeaf(unpack_root)

\* C28 as stated: unpack_file on a header-only source of a single-leaf tree
\* and a length N > 0 returns an error and has emitted no byte.
C28_HeaderOnlyRejected ==
    HeaderUnpacked => (~unpack_result.ok /\ sink = <<>>)

\* C28: on a header-only source of the tree Leaf(s) and a length N > 0,
\* unpack_file reads the 7 zero bits the flush added as 7 codewords: for
\* N <= 7 it returns Ok(N) with N copies of s emitted, for N > 7 it emits 7
\* copies of s and returns UnexpectedEof.
C28_HeaderOnlyPadding ==
    HeaderUnpacked =>
        LET s == unpack_root.left.byte
        IN IF U64Less(U64(HeaderPadding), total_byte_count)
           THEN /\ unpack_result = Err("UnexpectedEof")
                /\ sink = Copies(HeaderPadding, s)
           ELSE /\ unpack_result = Ok(bytes_read)
                /\ U64(bytes_read) = total_byte_count
                /\ sink = Copies(bytes_read, s)

C28_Witness ==
    /\ HeaderUnpacked
    /\ total_byte_count = U64(HeaderPadding)
    /\ unpack_result = Ok(HeaderPadding)
    /\ sink = Copies(HeaderPadding, 255)

\* unpack_file has returned on a source that lacks bytes of the container.
TruncatedUnpacked ==
    /\ pc = "unpack_done"
    /\ Len(bit_reader.inner) < Len(bit_writer.inner)

\* C29: on a strict prefix of the container of a non-empty input D,
\* unpack_file returns UnexpectedEof and has written a prefix of D to the
\* sink, unless the prefix is empty: then it returns Ok(0) and writes nothing.
C29_TruncationDetected ==
    TruncatedUnpacked =>
        IF bit_reader.inner = <<>>
        THEN unpack_result = Ok(0) /\ sink = <<>>
        ELSE unpack_result = Err("UnexpectedEof") /\ IsPrefix(sink, source)

C29_Witness ==
    /\ TruncatedUnpacked
    /\ Len(source) = MaxLen
    /\ Len(bit_reader.inner) = Len(bit_writer.inner) - 1
    /\ unpack_result = Err("UnexpectedEof")
    /\ sink # <<>>
    /\ IsPrefix(sink, source)

\* The decode loop of unpack_file has been entered.
Decoding == total_byte_count # <<>>

\* C30: once unpack_file has read the header, whatever length it declares,
\* the decode loop ends and unpack_file returns.  The root it decodes with is
\* a Pair, so the bytes emitted never outnumber the bits read, which never
\* outnumber the bits of the source; and unpack_file returns the declared
\* number of bytes, all emitted, or UnexpectedEof or InvalidData.
C30_UnpackTerminates ==
    /\ Decoding ~> (pc = "unpack_done")
    /\ [](Decoding =>
            /\ unpack_root.tag = "Pair"
            /\ bytes_read <= BitPosition(bit_reader)
            /\ BitPosition(bit_reader) <= U8_BITS * Len(bit_reader.inner)
            /\ Len(sink) = bytes_read
            /\ pc = "unpack_done" =>
                  \/ /\ unpack_result = Ok(bytes_read)
                     /\ U64(bytes_read) = total_byte_count
                  \/ unpack_result \in {Err("UnexpectedEof"), Err("InvalidData")})

C30_Witness ==
    /\ pc = "unpack_done"
    /\ Decoding
    /\ total_byte_count = U64_MAX
    /\ bytes_read = HeaderPadding
    /\ BitPosition(bit_reader) = U8_BITS * Len(bit_reader.inner)
    /\ unpack_result = Err("UnexpectedEof")

====
